---------------------------- MODULE Spec2Model ----------------------------
(***************************************************************************)
(* A model of the PMO portfolio application (allahgabo/pmo):               *)
(*   - the derived metrics of projects/models.py (Project.health_score and *)
(*     the other Project properties),                                      *)
(*   - the create_snapshots management command,                            *)
(*   - the AI engine of ai_engine/service.py.                              *)
(*                                                                         *)
(* Representation.                                                         *)
(*   A DecimalField with two decimal places (spi, cpi) is an integer count *)
(*   of hundredths: 0.86 is 86.  A nullable value is None (<<>>) or        *)
(*   Some(v) (<<v>>).  A date is a day number.  The related managers       *)
(*   project.risks / project.tasks are multisets: a function from the kind *)
(*   of row to the number of such rows.                                    *)
(***************************************************************************)
EXTENDS Integers, Sequences, FiniteSets, TLC

VARIABLES
    today,      \* timezone.now().date()
    projects,   \* Project rows: project id -> record of fields
    risks,      \* Risk rows per project: id -> [severity -> count]
    tasks,      \* Task rows per project: id -> [task kind -> count]
    report,     \* the last health_report response, NoReport when none is held
    metrics,    \* the derived properties last read off a Project, NoMetrics when none
    issues,     \* Issue rows per project: id -> [status -> count]
    snapshots,  \* ProjectSnapshot rows: project id -> date -> rows, oldest first
    run,        \* the invocations of create_snapshots: their locals and position
    settings,   \* django.conf.settings: the value of ANTHROPIC_API_KEY
    engine,     \* the PMOAIEngine instance in use, NoEngine before one is built
    anthropic,  \* the uses of the anthropic package made by that instance, and
                \* the outcome of its last client.messages.create
    result,     \* what the last engine operation returned, NoResult when none
    http,       \* the last response of an AI endpoint or of a page view,
                \* NoHttp when none
    resources,  \* Resource rows per project: id -> number of active rows
    milestones, \* Milestone rows per project: id -> number of rows
    users,      \* auth User rows with their UserProfile, by id (position)
    activity,   \* ActivityLog rows: [action, model_name] -> number of rows
    pending,    \* register_view requests being served: their locals and position
    sequence    \* the last id the database gave to a Project row

store == <<projects, risks, tasks, issues, resources, milestones>>
snap == <<snapshots, run>>
ai == <<settings, engine, anthropic, result, http>>
site == <<users, activity, pending, sequence>>
vars == <<today, projects, risks, tasks, report, metrics, issues, snapshots, run,
          settings, engine, anthropic, result, http, resources, milestones,
          users, activity, pending, sequence>>

-----------------------------------------------------------------------------
(* Bounds of the model *)

MaxDay == 2
MaxRisks == 4
MaxTasks == 5

-----------------------------------------------------------------------------
(* Values *)

None == <<>>
Some(v) == <<v>>
Val(x) == x[1]

Min(a, b) == IF a < b THEN a ELSE b
Max(a, b) == IF a > b THEN a ELSE b

Ok(v) == [raised |-> FALSE, value |-> v]
Raise(e) == [raised |-> TRUE, value |-> e]

Days == 1..MaxDay

Severities == {"medium", "high", "critical"}

TaskStatuses == {"not_started", "in_progress", "blocked", "completed"}

TaskDueDates == {1}

TaskKinds == [status : TaskStatuses, due_date : TaskDueDates]

SpiValues == {69, 70, 86, 90, 100}

CpiValues == {69, 70, 90, 92}

RECURSIVE SumOver(_, _)
SumOver(f, S) ==
    IF S = {} THEN 0
    ELSE LET x == CHOOSE y \in S : TRUE
         IN  f[x] + SumOver(f, S \ {x})

Total(f) == SumOver(f, DOMAIN f)

-----------------------------------------------------------------------------
(* Decimal against a float literal.  Python compares a Decimal with a      *)
(* float exactly, by value.  The literal 0.9 is the double                 *)
(* 0.90000000000000002220..., above 0.90; the literal 0.7 is the double    *)
(* 0.69999999999999995559..., below 0.70.  A literal is kept as its        *)
(* nearest count of hundredths and the side on which the double lies.      *)

Float09 == [hundredths |-> 90, above |-> TRUE]
Float07 == [hundredths |-> 70, above |-> FALSE]

DecimalLtFloat(d, f) ==
    \/ d < f.hundredths
    \/ d = f.hundredths /\ f.above

-----------------------------------------------------------------------------
(* Project.health_score *)

\* a slip: the two SPI penalties exchanged
SpiPenalty_Exchanged(spi) ==
    IF DecimalLtFloat(spi, Float07) THEN 15
    ELSE IF DecimalLtFloat(spi, Float09) THEN 30
    ELSE 0

SpiPenalty(spi) ==
    IF DecimalLtFloat(spi, Float07) THEN 30
    ELSE IF DecimalLtFloat(spi, Float09) THEN 15
    ELSE 0

CpiPenalty(cpi) ==
    IF DecimalLtFloat(cpi, Float07) THEN 20
    ELSE IF DecimalLtFloat(cpi, Float09) THEN 10
    ELSE 0

\* a slip: the filter of the serializers, severity__in=['high', 'critical']
HighRiskCount_WithCritical(rs) == rs["high"] + rs["critical"]

\* self.risks.filter(severity='high').count()
HighRiskCount(rs) == rs["high"]

\* self.tasks.filter(status__in=['not_started', 'in_progress'],
\*                   due_date__lt=timezone.now().date()).count()
OverdueTaskFilter(k, now) ==
    /\ k.status \in {"not_started", "in_progress"}
    /\ k.due_date < now

OverdueTaskCount(ts, now) ==
    SumOver(ts, {k \in DOMAIN ts : OverdueTaskFilter(k, now)})

\* a slip: score += min(high_risks * 10, 30)
health_score_SignSlip(p, rs, ts, now) ==
    IF p.spi = None \/ p.cpi = None
    THEN Raise("TypeError")
    ELSE Ok(Max(0, 100 - SpiPenalty(Val(p.spi))
                       - CpiPenalty(Val(p.cpi))
                       + Min(HighRiskCount(rs) * 10, 30)
                       - Min(OverdueTaskCount(ts, now) * 5, 20)))

health_score(p, rs, ts, now) ==
    IF p.spi = None \/ p.cpi = None
    THEN Raise("TypeError")
    ELSE Ok(Max(0, 100 - SpiPenalty(Val(p.spi))
                       - CpiPenalty(Val(p.cpi))
                       - Min(HighRiskCount(rs) * 10, 30)
                       - Min(OverdueTaskCount(ts, now) * 5, 20)))

-----------------------------------------------------------------------------
(* The other derived properties of Project.  A float is the exact rational *)
(* [num, den]; a Decimal of d hundredths converts to d/100.  Python's      *)
(* truth test `not x` holds of None and of a zero Decimal; a date is       *)
(* always true.                                                            *)

Number(n) == [num |-> n, den |-> 1]
FloatOfDecimal(d) == [num |-> d, den |-> 100]

Falsy(x) == x = None \/ Val(x) = 0

\* a slip: spending the whole budget already counts as over budget
is_overbudget_NotStrict(p) ==
    IF p.budget = None \/ p.spent = None THEN Ok(FALSE)
    ELSE Ok(Val(p.spent) >= Val(p.budget))

is_overbudget(p) ==
    IF p.budget = None \/ p.spent = None THEN Ok(FALSE)
    ELSE Ok(Val(p.spent) > Val(p.budget))

is_behind_schedule(p) ==
    IF p.spi = None THEN Raise("TypeError")
    ELSE Ok(DecimalLtFloat(Val(p.spi), Float09))

budget_variance(p) ==
    IF p.budget = None \/ p.spent = None THEN Ok(Number(0))
    ELSE Ok(FloatOfDecimal(Val(p.budget) - Val(p.spent)))

\* a slip: a passed planned end date gives 0 instead of a negative number
days_remaining_ClampsAtZero(p, now) ==
    IF p.actual_end_date # None THEN Ok(0)
    ELSE IF p.planned_end_date = None THEN Ok(0)
    ELSE Ok(Max(0, Val(p.planned_end_date) - now))

days_remaining(p, now) ==
    IF p.actual_end_date # None THEN Ok(0)
    ELSE IF p.planned_end_date = None THEN Ok(0)
    ELSE Ok(Val(p.planned_end_date) - now)

\* a slip: the elapsed days are not allowed to be negative
schedule_variance_ClampsElapsed(p, now) ==
    IF Falsy(p.budget) THEN Ok(Number(0))
    ELSE IF p.start_date # None /\ p.planned_end_date # None
    THEN LET total_days == Val(p.planned_end_date) - Val(p.start_date)
             elapsed_days == Max(0, now - Val(p.start_date))
         IN  IF total_days > 0
             THEN Ok([num |-> Val(p.budget) *
                               (p.completion_percentage * total_days
                                  - 100 * Min(total_days, elapsed_days)),
                      den |-> 10000 * total_days])
             ELSE Ok(Number(0))
    ELSE Ok(Number(0))

\* EV - PV = budget * (completion/100 - min(100, elapsed/total*100)/100)
schedule_variance(p, now) ==
    IF Falsy(p.budget) THEN Ok(Number(0))
    ELSE IF p.start_date # None /\ p.planned_end_date # None
    THEN LET total_days == Val(p.planned_end_date) - Val(p.start_date)
             elapsed_days == now - Val(p.start_date)
         IN  IF total_days > 0
             THEN Ok([num |-> Val(p.budget) *
                               (p.completion_percentage * total_days
                                  - 100 * Min(total_days, elapsed_days)),
                      den |-> 10000 * total_days])
             ELSE Ok(Number(0))
    ELSE Ok(Number(0))

\* EV - float(spent)
cost_variance(p) ==
    IF Falsy(p.budget) THEN Ok(Number(0))
    ELSE IF p.spent = None THEN Raise("TypeError")
    ELSE Ok([num |-> Val(p.budget) * p.completion_percentage - 100 * Val(p.spent),
             den |-> 10000])

budget_burn_rate(p, now) ==
    IF p.start_date = None \/ Falsy(p.spent) THEN Ok(Number(0))
    ELSE LET elapsed_days == now - Val(p.start_date)
         IN  IF elapsed_days > 0
             THEN Ok([num |-> Val(p.spent), den |-> 100 * elapsed_days])
             ELSE Ok(Number(0))

\* start_date + timedelta(days=total_days / float(spi)): the date moves by
\* the whole days of the quotient
projected_completion_date(p) ==
    IF p.planned_end_date = None THEN Ok(p.planned_end_date)
    ELSE IF p.spi # None /\ Val(p.spi) = 0 THEN Ok(p.planned_end_date)
    ELSE IF p.spi = None THEN Raise("TypeError")
    ELSE IF Val(p.spi) >= 100 THEN Ok(p.planned_end_date)
    ELSE IF p.start_date = None THEN Raise("TypeError")
    ELSE LET total_days == Val(p.planned_end_date) - Val(p.start_date)
         IN  Ok(Some(Val(p.start_date) + ((total_days * 100) \div Val(p.spi))))

projected_final_cost(p) ==
    IF Falsy(p.budget) THEN Ok(p.budget)
    ELSE IF p.cpi # None /\ Val(p.cpi) = 0 THEN Ok(p.budget)
    ELSE IF p.cpi = None THEN Raise("TypeError")
    ELSE Ok([num |-> Val(p.budget), den |-> Val(p.cpi)])

MetricNames ==
    {"is_overbudget", "is_behind_schedule", "budget_variance", "days_remaining",
     "health_score", "schedule_variance", "cost_variance", "budget_burn_rate",
     "projected_completion_date", "projected_final_cost"}

NoMetrics == [project |-> 0]

AllMetrics(p, rs, ts, now) ==
    [is_overbudget |-> is_overbudget(p),
     is_behind_schedule |-> is_behind_schedule(p),
     budget_variance |-> budget_variance(p),
     days_remaining |-> days_remaining(p, now),
     health_score |-> health_score(p, rs, ts, now),
     schedule_variance |-> schedule_variance(p, now),
     cost_variance |-> cost_variance(p),
     budget_burn_rate |-> budget_burn_rate(p, now),
     projected_completion_date |-> projected_completion_date(p),
     projected_final_cost |-> projected_final_cost(p)]

-----------------------------------------------------------------------------
(* The store and the REST operations on it *)

NoReport == [project |-> 0]

IssueStatuses == {"open", "resolved"}

Runs == {"A", "B"}

NoRisks == [s \in Severities |-> 0]
NoIssues == [s \in IssueStatuses |-> 0]
NoSnapshots == [d \in Days |-> <<>>]
IdleRun ==
    [pc |-> "idle", today |-> 0, loaded |-> <<>>, queue |-> <<>>, read |-> <<>>,
     created_count |-> 0, updated_count |-> 0]
NoRuns == [r \in Runs |-> IdleRun]
NoTasks == [k \in TaskKinds |-> 0]
NoEngine == [built |-> FALSE]
NoCall == [kind |-> "none", text |-> <<>>]
NoUses == [constructions |-> 0, requests |-> 0, last |-> NoCall]
NoResult == [op |-> "none"]
NoHttp == [view |-> "none"]

\* no PMOAIEngine has been built and ANTHROPIC_API_KEY is not set
EngineUnused ==
    /\ settings = None
    /\ engine = NoEngine
    /\ anthropic = NoUses
    /\ result = NoResult
    /\ http = NoHttp

\* the browsers that may have a register_view request in flight
Visitors == {"V1", "V2"}

\* the actions the pages log, with the model they log them for
Logged ==
    {[action |-> "create", model_name |-> "Project"],
     [action |-> "update", model_name |-> "Project"],
     [action |-> "delete", model_name |-> "Project"],
     [action |-> "create", model_name |-> "User"]}
NoActivity == [a \in Logged |-> 0]

\* no request in flight: pc is the statement the request is about to run, user
\* the id of the row create_user returned, message what the visitor was shown
IdleRegistration ==
    [pc |-> "idle", username |-> "", email |-> "", role |-> "", user |-> 0,
     message |-> ""]
NoPending == [v \in Visitors |-> IdleRegistration]

\* nobody has an account and no page view has been requested; the projects
\* present were given the ids 1, 2, ...
SiteUnused ==
    /\ users = <<>>
    /\ activity = NoActivity
    /\ pending = NoPending
    /\ sequence = Cardinality(DOMAIN projects)

\* the field defaults of Project, with the dates a form must supply
DefaultProject ==
    [status |-> "on_track", completion_percentage |-> 0,
     budget |-> Some(0), spent |-> Some(0),
     spi |-> Some(100), cpi |-> Some(100),
     start_date |-> Some(1), planned_end_date |-> Some(2),
     actual_end_date |-> None]

\* ProjectViewSet update (PUT/PATCH /projects/<id>/)
ProjectUpdate(p, spi, cpi) ==
    /\ p \in DOMAIN projects
    /\ projects' = [projects EXCEPT ![p].spi = Some(spi), ![p].cpi = Some(cpi)]
    /\ report' = NoReport
    /\ UNCHANGED <<today, risks, tasks, metrics, issues, resources, milestones, snap, ai, site>>

\* RiskViewSet create (POST /risks/)
RiskCreate(p, sev) ==
    /\ p \in DOMAIN projects
    /\ Total(risks[p]) < MaxRisks
    /\ risks' = [risks EXCEPT ![p][sev] = @ + 1]
    /\ report' = NoReport
    /\ UNCHANGED <<today, projects, tasks, metrics, issues, resources, milestones, snap, ai, site>>

\* TaskViewSet create (POST /tasks/)
TaskCreate(p, k) ==
    /\ p \in DOMAIN projects
    /\ Total(tasks[p]) < MaxTasks
    /\ tasks' = [tasks EXCEPT ![p][k] = @ + 1]
    /\ report' = NoReport
    /\ UNCHANGED <<today, projects, risks, metrics, issues, resources, milestones, snap, ai, site>>

\* the calendar date advances
Tick ==
    /\ today < MaxDay
    /\ today' = today + 1
    /\ report' = NoReport
    /\ metrics' = NoMetrics
    /\ UNCHANGED <<store, snap, ai, site>>

\* a slip: the report is served and a status derived from the score is
\* saved on the row
HealthReport_WritesBack(p) ==
    /\ p \in DOMAIN projects
    /\ report' = [project |-> p,
                  health_score |-> health_score(projects[p], risks[p], tasks[p], today),
                  high |-> risks[p]["high"],
                  overdue |-> OverdueTaskCount(tasks[p], today)]
    /\ projects' = [projects EXCEPT ![p].status = "at_risk"]
    /\ UNCHANGED <<today, risks, tasks, metrics, issues, resources, milestones, snap, ai, site>>

\* ProjectViewSet.health_report (GET /projects/<id>/health_report/)
HealthReport(p) ==
    /\ p \in DOMAIN projects
    /\ report' = [project |-> p,
                  health_score |-> health_score(projects[p], risks[p], tasks[p], today),
                  high |-> risks[p]["high"],
                  overdue |-> OverdueTaskCount(tasks[p], today)]
    /\ UNCHANGED <<today, store, metrics, snap, ai, site>>

InitHealth ==
    /\ today = 1
    /\ \E s \in SpiValues, c \in CpiValues :
         projects = (1 :> [DefaultProject EXCEPT !.spi = Some(s), !.cpi = Some(c)])
    /\ risks = (1 :> NoRisks)
    /\ tasks = (1 :> NoTasks)
    /\ report = NoReport
    /\ metrics = NoMetrics
    /\ issues = (1 :> NoIssues)
    /\ resources = (1 :> 1)
    /\ milestones = (1 :> 1)
    /\ snapshots = (1 :> NoSnapshots)
    /\ run = NoRuns
    /\ EngineUnused
    /\ SiteUnused

NextHealth ==
    \/ \E p \in DOMAIN projects, s \in SpiValues :
         ProjectUpdate(p, s, Val(projects[p].cpi))
    \/ \E p \in DOMAIN projects, c \in CpiValues :
         ProjectUpdate(p, Val(projects[p].spi), c)
    \/ \E p \in DOMAIN projects, sev \in Severities : RiskCreate(p, sev)
    \/ \E p \in DOMAIN projects, k \in TaskKinds : TaskCreate(p, k)
    \/ Tick
    \/ \E p \in DOMAIN projects : HealthReport(p)

SpecHealth == InitHealth /\ [][NextHealth]_vars

-----------------------------------------------------------------------------
(* Reading the derived properties off a Project instance.  The instance    *)
(* may be one built in memory and not yet validated, so a field may be     *)
(* None.                                                                   *)

BudgetValues == {None, Some(0), Some(10000)}
SpentValues == {None, Some(0), Some(10000), Some(10100)}
IndexValues == {None, Some(0), Some(80), Some(100)}
StartDates == {None, Some(1), Some(2)}
PlannedEndDates == {None, Some(1), Some(3)}
ActualEndDates == {None, Some(2)}
CompletionValues == {0, 50, 100}

ReadMetrics(p) ==
    /\ p \in DOMAIN projects
    /\ metrics' = [project |-> p,
                   result |-> AllMetrics(projects[p], risks[p], tasks[p], today)]
    /\ UNCHANGED <<today, store, report, snap, ai, site>>

InitMetrics ==
    /\ today \in Days
    /\ \E b \in BudgetValues, s \in SpentValues, spi \in IndexValues, cpi \in IndexValues,
          sd \in StartDates, pe \in PlannedEndDates, ae \in ActualEndDates,
          c \in CompletionValues :
         projects = (1 :> [status |-> "on_track", completion_percentage |-> c,
                           budget |-> b, spent |-> s, spi |-> spi, cpi |-> cpi,
                           start_date |-> sd, planned_end_date |-> pe,
                           actual_end_date |-> ae])
    /\ risks = (1 :> NoRisks)
    /\ tasks = (1 :> NoTasks)
    /\ report = NoReport
    /\ metrics = NoMetrics
    /\ issues = (1 :> NoIssues)
    /\ resources = (1 :> 1)
    /\ milestones = (1 :> 1)
    /\ snapshots = (1 :> NoSnapshots)
    /\ run = NoRuns
    /\ EngineUnused
    /\ SiteUnused

NextMetrics ==
    \/ Tick
    \/ \E p \in DOMAIN projects : ReadMetrics(p)

SpecMetrics == InitMetrics /\ [][NextMetrics]_vars

\* projected_final_cost alone, on budgets of the size of a real project
CostBudgetValues == {None, Some(0), Some(1000), Some(50000000)}
CostCpiValues ==
    {None} \cup {Some(c) : c \in {0, 1, 50, 70, 80, 90, 92, 100, 110, 125, 150, 200}}

ReadProjectedFinalCost(p) ==
    /\ p \in DOMAIN projects
    /\ metrics' = [project |-> p,
                   projected_final_cost |-> projected_final_cost(projects[p])]
    /\ UNCHANGED <<today, store, report, snap, ai, site>>

InitCost ==
    /\ today = 1
    /\ \E b \in CostBudgetValues, cpi \in CostCpiValues :
         projects = (1 :> [DefaultProject EXCEPT !.budget = b, !.cpi = cpi])
    /\ risks = (1 :> NoRisks)
    /\ tasks = (1 :> NoTasks)
    /\ report = NoReport
    /\ metrics = NoMetrics
    /\ issues = (1 :> NoIssues)
    /\ resources = (1 :> 1)
    /\ milestones = (1 :> 1)
    /\ snapshots = (1 :> NoSnapshots)
    /\ run = NoRuns
    /\ EngineUnused
    /\ SiteUnused

NextCost ==
    \/ Tick
    \/ \E p \in DOMAIN projects : ReadProjectedFinalCost(p)

SpecCost == InitCost /\ [][NextCost]_vars

-----------------------------------------------------------------------------
(* The create_snapshots management command (Command.handle).  An           *)
(* invocation reads the date once, loads the Project rows when its loop    *)
(* starts, and for each project calls get_or_create and, when the row      *)
(* existed, overwrites it and saves.  get_or_create is a SELECT, then an   *)
(* INSERT when nothing was found, then a second SELECT when the INSERT     *)
(* fails on the unique constraint; each statement is one step.             *)

SnapSpiValues == {86}

\* Project.Meta.ordering = ['-created_at']: the newest project first
RECURSIVE ProjectOrder(_)
ProjectOrder(ids) ==
    IF ids = {} THEN <<>>
    ELSE LET newest == CHOOSE i \in ids : \A j \in ids : j <= i
         IN  <<newest>> \o ProjectOrder(ids \ {newest})

\* the values of the defaults dictionary and of the update branch
SnapshotValues(inst, rs, ts, is, now) ==
    [status |-> inst.status,
     completion_percentage |-> inst.completion_percentage,
     budget |-> inst.budget,
     spent |-> inst.spent,
     spi |-> inst.spi,
     cpi |-> inst.cpi,
     health_score |-> health_score(inst, rs, ts, now).value,
     total_tasks |-> Total(ts),
     completed_tasks |-> SumOver(ts, {k \in DOMAIN ts : k.status = "completed"}),
     total_risks |-> Total(rs),
     high_risks |-> rs["high"] + rs["critical"],
     total_issues |-> Total(is),
     open_issues |-> is["open"]]

\* a slip: the date of the row taken from the clock at the time of the call
\* (snapshot_date's own default) instead of the date the invocation read
SnapshotDate_Now(r) == today

\* today = timezone.now().date(), read once by the invocation
SnapshotDate(r) == run[r].today

\* a slip: no unique_together on ProjectSnapshot
UniqueViolation_None(p, d) == FALSE

\* unique_together = ['project', 'snapshot_date']: an INSERT of a second row
\* for the pair fails with IntegrityError
UniqueViolation(p, d) == Len(snapshots[p][d]) > 0

\* the outcome of ProjectSnapshot.objects.get(project=p, snapshot_date=d)
GetOutcome(p, d) ==
    CASE Len(snapshots[p][d]) = 0 -> "create"
      [] Len(snapshots[p][d]) = 1 -> "update"
      [] OTHER -> "crashed"

Advance(r, rec) ==
    [rec EXCEPT !.queue = Tail(@),
                !.pc = IF Tail(run[r].queue) = <<>> THEN "done" ELSE "get"]

StartRun(r) ==
    /\ run[r].pc = "idle"
    /\ run' = [run EXCEPT ![r] =
                 [pc |-> IF DOMAIN projects = {} THEN "done" ELSE "get",
                  today |-> today,
                  loaded |-> projects,
                  queue |-> ProjectOrder(DOMAIN projects),
                  read |-> <<>>,
                  created_count |-> 0,
                  updated_count |-> 0]]
    /\ UNCHANGED <<today, store, report, metrics, snapshots, ai, site>>

\* the defaults are evaluated, then get_or_create runs its first SELECT
RunGet(r) ==
    /\ run[r].pc = "get"
    /\ LET p == Head(run[r].queue)
           vals == SnapshotValues(run[r].loaded[p], risks[p], tasks[p], issues[p], today)
       IN  run' = [run EXCEPT ![r].read = (p :> vals) @@ @,
                              ![r].pc = GetOutcome(p, SnapshotDate(r))]
    /\ UNCHANGED <<today, store, report, metrics, snapshots, ai, site>>

\* the INSERT of get_or_create; on IntegrityError the row is fetched instead
RunCreate(r) ==
    /\ run[r].pc = "create"
    /\ LET p == Head(run[r].queue)
           d == SnapshotDate(r)
       IN  IF UniqueViolation(p, d)
           THEN /\ run' = [run EXCEPT ![r].pc = GetOutcome(p, d)]
                /\ UNCHANGED snapshots
           ELSE /\ snapshots' = [snapshots EXCEPT ![p][d] = Append(@, run[r].read[p])]
                /\ run' = [run EXCEPT ![r] =
                             Advance(r, [@ EXCEPT !.created_count = @ + 1])]
    /\ UNCHANGED <<today, store, report, metrics, ai, site>>

\* a slip: an existing row is left as it is
RunUpdate_Skip(r) ==
    /\ run[r].pc = "update"
    /\ run' = [run EXCEPT ![r] = Advance(r, [@ EXCEPT !.updated_count = @ + 1])]
    /\ UNCHANGED <<today, store, report, metrics, snapshots, ai, site>>

\* created = False: every field is read again and the row is saved
RunUpdate(r) ==
    /\ run[r].pc = "update"
    /\ LET p == Head(run[r].queue)
           d == SnapshotDate(r)
           vals == SnapshotValues(run[r].loaded[p], risks[p], tasks[p], issues[p], today)
       IN  /\ snapshots' = [snapshots EXCEPT ![p][d][1] = vals]
           /\ run' = [run EXCEPT ![r] =
                        Advance(r, [@ EXCEPT !.read = (p :> vals) @@ @,
                                             !.updated_count = @ + 1])]
    /\ UNCHANGED <<today, store, report, metrics, ai, site>>

\* the summary line is written and the command returns
RunExit(r) ==
    /\ run[r].pc = "done"
    /\ run' = [run EXCEPT ![r] = IdleRun]
    /\ UNCHANGED <<today, store, report, metrics, snapshots, ai, site>>

InitSnap ==
    /\ today = 1
    /\ projects = (1 :> DefaultProject @@ 2 :> [DefaultProject EXCEPT !.status = "at_risk"])
    /\ risks = (1 :> [NoRisks EXCEPT !["high"] = 1, !["critical"] = 1] @@ 2 :> NoRisks)
    /\ tasks = (1 :> NoTasks @@ 2 :> NoTasks)
    /\ issues = (1 :> [NoIssues EXCEPT !["open"] = 1] @@ 2 :> NoIssues)
    /\ resources = (1 :> 1 @@ 2 :> 1)
    /\ milestones = (1 :> 1 @@ 2 :> 1)
    /\ report = NoReport
    /\ metrics = NoMetrics
    /\ snapshots = (1 :> NoSnapshots @@ 2 :> NoSnapshots)
    /\ run = NoRuns
    /\ EngineUnused
    /\ SiteUnused

SnapEdit ==
    \E p \in DOMAIN projects, s \in SnapSpiValues :
        ProjectUpdate(p, s, Val(projects[p].cpi))

\* invocations may overlap
NextSnap ==
    \/ Tick
    \/ SnapEdit
    \/ \E r \in Runs : StartRun(r)
    \/ \E r \in Runs : RunGet(r)
    \/ \E r \in Runs : RunCreate(r)
    \/ \E r \in Runs : RunUpdate(r)
    \/ \E r \in Runs : RunExit(r)

SpecSnap == InitSnap /\ [][NextSnap]_vars

\* one invocation at a time (a daily job), edits in between and during it
NextSnapSeq ==
    \/ Tick
    \/ SnapEdit
    \/ \E r \in Runs :
         /\ \A o \in Runs \ {r} : run[o].pc \in {"idle", "crashed"}
         /\ StartRun(r)
    \/ \E r \in Runs : RunGet(r)
    \/ \E r \in Runs : RunCreate(r)
    \/ \E r \in Runs : RunUpdate(r)
    \/ \E r \in Runs : RunExit(r)

SpecSnapSeq == InitSnap /\ [][NextSnapSeq]_vars

-----------------------------------------------------------------------------
(* The AI engine (ai_engine/service.py, class PMOAIEngine).  An API key is *)
(* a string, held as its sequence of tokens: a quote character, the prefix *)
(* sk-ant-, the word demo-mode, or other characters.  The setting is None  *)
(* when ANTHROPIC_API_KEY is absent and Some(<<>>) when it is the empty    *)
(* string.  The data handed to an operation is the set of the kinds of     *)
(* value its mapping holds.                                                *)

MaxRequests == 2

Quotes == {"'", "\""}

ApiKeys ==
    {None,
     Some(<<>>),
     Some(<<"demo-mode">>),
     Some(<<"'", "'">>),
     Some(<<"other">>),
     Some(<<"sk-ant-", "other">>),
     Some(<<"\"", "sk-ant-", "other", "\"">>),
     Some(<<"'", "demo-mode", "'">>)}

ValueKinds == {"int", "float", "str", "Decimal"}
JsonData == (SUBSET ValueKinds) \ {{}}

\* the outcomes of Anthropic(api_key=...)
ClientOutcomes == {"client", "ImportError", "Exception"}
\* the text of a completion, as its tokens: prose, a JSON object, a JSON
\* object with the key response
Completions ==
    {<<"The", "project", "is", "late">>,
     <<"{", "summary", ":", "late", "}">>,
     <<"{", "response", ":", "late", "}">>}

\* the outcomes of client.messages.create(...): a message with a text, a
\* message with an empty content list, an object without content, an
\* exception
ApiOutcomes ==
    {[kind |-> "message", text |-> t] : t \in Completions}
    \cup {[kind |-> k, text |-> <<>>] :
             k \in {"empty_content", "no_content", "APIError", "ImportError"}}

\* json.loads on a completion: the object parsed, or JSONDecodeError
json_loads(text) ==
    IF Len(text) = 5 /\ text[1] = "{" /\ text[3] = ":" /\ text[5] = "}"
    THEN Ok(text[2] :> text[4])
    ELSE Raise("JSONDecodeError")

\* str.startswith
StartsWith(s, tok) == Len(s) > 0 /\ s[1] = tok

\* str.strip("'\""): the quote characters at both ends are removed
RECURSIVE strip(_)
strip(s) ==
    IF s = <<>> THEN s
    ELSE IF s[1] \in Quotes THEN strip(Tail(s))
    ELSE IF s[Len(s)] \in Quotes THEN strip(SubSeq(s, 1, Len(s) - 1))
    ELSE s

\* a slip: only the literal demo-mode turns the demo mode on
check_demo_mode_LiteralOnly(api_key) ==
    [demo_mode |-> api_key = Some(<<"demo-mode">>), api_key |-> api_key]

\* the value returned, and self.api_key as the method leaves it
check_demo_mode(api_key) ==
    IF api_key = None \/ api_key = Some(<<>>)
    THEN [demo_mode |-> TRUE, api_key |-> api_key]
    ELSE IF api_key = Some(<<"demo-mode">>)
    THEN [demo_mode |-> TRUE, api_key |-> api_key]
    ELSE LET key == IF StartsWith(Val(api_key), "'") \/ StartsWith(Val(api_key), "\"")
                    THEN strip(Val(api_key))
                    ELSE Val(api_key)
         IN  [demo_mode |-> ~StartsWith(key, "sk-ant-"), api_key |-> Some(key)]

convert_decimals(obj) == {IF v = "Decimal" THEN "float" ELSE v : v \in obj}

\* json.dumps raises TypeError on a Decimal
json_dumps(obj) == IF "Decimal" \in obj THEN Raise("TypeError") ELSE Ok("text")

\* the dictionary of _get_demo_response; a key a payload lacks is FALSE or ""
get_demo_response ==
    [response |-> <<"Demo Mode Response">>, demo_mode |-> TRUE, error |-> FALSE,
     error_type |-> "", success |-> FALSE]

\* a slip: the error key left out of the dictionary
get_error_response_NoFlag(error_type) ==
    [response |-> <<"error">>, demo_mode |-> FALSE, error |-> FALSE,
     error_type |-> error_type, success |-> FALSE]

get_error_response(error_type) ==
    [response |-> <<"error">>, demo_mode |-> FALSE, error |-> TRUE,
     error_type |-> error_type, success |-> FALSE]

\* _validate_response, and the handlers around client.messages.create
ApiResponse(api) ==
    CASE api.kind = "message" ->
           [response |-> api.text, demo_mode |-> FALSE, error |-> FALSE,
            error_type |-> "", success |-> TRUE]
      [] api.kind \in {"empty_content", "no_content"} -> get_error_response("ValueError")
      [] api.kind = "ImportError" -> get_error_response("Configuration Error")
      [] OTHER -> get_error_response(api.kind)

\* whether _call_claude_api gets as far as client.messages.create
ReachesClient(e) == ~e.demo_mode /\ e.client # None

call_claude_api(e, api) ==
    IF e.demo_mode THEN get_demo_response
    ELSE IF e.client = None THEN get_error_response("Configuration Error")
    ELSE ApiResponse(api)

\* a slip: a failed _initialize_client leaves demo_mode as it was
PMOAIEngine_KeepsMode(outcome) ==
    LET checked == check_demo_mode(settings)
    IN  [built |-> TRUE,
         api_key |-> checked.api_key,
         demo_mode |-> checked.demo_mode,
         client |-> IF ~checked.demo_mode /\ outcome = "client"
                    THEN Some("Anthropic") ELSE None]

\* PMOAIEngine(): __init__ with _check_demo_mode and _initialize_client
PMOAIEngine(outcome) ==
    LET checked == check_demo_mode(settings)
    IN  [built |-> TRUE,
         api_key |-> checked.api_key,
         demo_mode |-> checked.demo_mode \/ outcome # "client",
         client |-> IF ~checked.demo_mode /\ outcome = "client"
                    THEN Some("Anthropic") ELSE None]

\* the uses of the anthropic package made by the constructor
initialize_client(outcome) ==
    [constructions |-> IF ~check_demo_mode(settings).demo_mode /\ outcome # "ImportError"
                       THEN 1 ELSE 0,
     requests |-> 0,
     last |-> NoCall]

\* what an operation returns: its data converted and dumped into the
\* prompt, then _call_claude_api(prompt)
Operation(e, args, api) ==
    IF \E i \in DOMAIN args : json_dumps(convert_decimals(args[i])).raised
    THEN Raise("TypeError")
    ELSE Ok(call_claude_api(e, api))

NewEngine(outcome) ==
    /\ engine' = PMOAIEngine(outcome)
    /\ anthropic' = initialize_client(outcome)
    /\ result' = NoResult
    /\ UNCHANGED <<today, store, report, metrics, snap, settings, http, site>>

\* an operation called on the instance in use
EngineCall(op, args, api) ==
    /\ engine # NoEngine
    /\ anthropic.requests < MaxRequests
    /\ result' = [op |-> op, returned |-> Operation(engine, args, api)]
    /\ IF Operation(engine, args, api).raised
       THEN UNCHANGED anthropic
       ELSE /\ anthropic' = [anthropic EXCEPT
                               !.requests = IF ReachesClient(engine) THEN @ + 1 ELSE @,
                               !.last = IF ReachesClient(engine) THEN api ELSE @]
    /\ UNCHANGED <<today, store, report, metrics, snap, settings, engine, http, site>>

generate_project_summary ==
    \E project_data \in JsonData, api \in ApiOutcomes :
        EngineCall("generate_project_summary", <<project_data>>, api)

generate_portfolio_summary ==
    \E portfolio_data \in JsonData, api \in ApiOutcomes :
        EngineCall("generate_portfolio_summary", <<portfolio_data>>, api)

analyze_risk ==
    \E risk_data \in JsonData, api \in ApiOutcomes :
        EngineCall("analyze_risk", <<risk_data>>, api)

answer_pmo_question ==
    \E context_data \in JsonData, api \in ApiOutcomes :
        EngineCall("answer_pmo_question", <<context_data>>, api)

compare_projects ==
    \E projects_data \in JsonData, api \in ApiOutcomes :
        EngineCall("compare_projects", <<projects_data>>, api)

generate_executive_report ==
    \E portfolio_data \in JsonData, projects_data \in JsonData, api \in ApiOutcomes :
        EngineCall("generate_executive_report", <<portfolio_data, projects_data>>, api)

InitAI ==
    /\ today = 1
    /\ projects = (1 :> DefaultProject)
    /\ risks = (1 :> [NoRisks EXCEPT !["high"] = 1])
    /\ tasks = (1 :> NoTasks)
    /\ issues = (1 :> NoIssues)
    /\ resources = (1 :> 1)
    /\ milestones = (1 :> 1)
    /\ report = NoReport
    /\ metrics = NoMetrics
    /\ snapshots = (1 :> NoSnapshots)
    /\ run = NoRuns
    /\ settings \in ApiKeys
    /\ engine = NoEngine
    /\ anthropic = NoUses
    /\ result = NoResult
    /\ http = NoHttp
    /\ SiteUnused

NextAI ==
    \/ \E outcome \in ClientOutcomes : NewEngine(outcome)
    \/ generate_project_summary
    \/ generate_portfolio_summary
    \/ analyze_risk
    \/ answer_pmo_question
    \/ compare_projects
    \/ generate_executive_report

SpecAI == InitAI /\ [][NextAI]_vars

-----------------------------------------------------------------------------
(* The AI endpoints (ai_engine/views.py).  Each view builds its data,      *)
(* then, inside one try block, constructs a PMOAIEngine, answers 503 when  *)
(* the engine is in demo mode, calls the operation, answers 503 when the   *)
(* payload carries the error flag and 200 with the payload otherwise; the  *)
(* except clause answers 500.                                              *)

\* a slip: the payload is passed on without a look at its error flag
ViewStatus_IgnoresErrorFlag(r) == IF r.raised THEN 500 ELSE 200

\* the status after the operation has been called
ViewStatus(r) ==
    IF r.raised THEN 500
    ELSE IF r.value.error THEN 503
    ELSE 200

\* an early return of a view: no engine is built
Rejected(view, status) ==
    /\ http' = [view |-> view, status |-> status, caught |-> FALSE]
    /\ engine' = NoEngine
    /\ anthropic' = NoUses
    /\ result' = NoResult
    /\ UNCHANGED <<today, store, report, metrics, snap, settings, site>>

\* the try block of a view; unexpected: an exception is raised while the
\* engine is being constructed (settings cannot be read)
EngineInteraction(view, op, args, outcome, api, unexpected) ==
    /\ LET e == PMOAIEngine(outcome)
           r == Operation(e, args, api)
       IN  IF unexpected
           THEN /\ http' = [view |-> view, status |-> 500, caught |-> TRUE]
                /\ engine' = NoEngine
                /\ anthropic' = NoUses
                /\ result' = NoResult
           ELSE IF e.demo_mode
           THEN /\ http' = [view |-> view, status |-> 503, caught |-> FALSE]
                /\ engine' = e
                /\ anthropic' = initialize_client(outcome)
                /\ result' = NoResult
           ELSE /\ http' = [view |-> view, status |-> ViewStatus(r), caught |-> r.raised]
                /\ engine' = e
                /\ anthropic' =
                     IF ~r.raised /\ ReachesClient(e)
                     THEN [initialize_client(outcome) EXCEPT !.requests = 1, !.last = api]
                     ELSE initialize_client(outcome)
                /\ result' = [op |-> op, returned |-> r]
    /\ UNCHANGED <<today, store, report, metrics, snap, settings, site>>

ProjectSummaryView ==
    \E project_id \in 1..2 :
        IF project_id \notin DOMAIN projects
        THEN Rejected("ProjectSummaryView", 404)
        ELSE \E project_data \in JsonData, outcome \in ClientOutcomes,
                api \in ApiOutcomes, unexpected \in BOOLEAN :
                EngineInteraction("ProjectSummaryView", "generate_project_summary",
                                  <<project_data>>, outcome, api, unexpected)

PortfolioSummaryView ==
    \E portfolio_data \in JsonData, outcome \in ClientOutcomes,
       api \in ApiOutcomes, unexpected \in BOOLEAN :
        EngineInteraction("PortfolioSummaryView", "generate_portfolio_summary",
                          <<portfolio_data>>, outcome, api, unexpected)

RiskAnalysisView ==
    \E p \in 1..2, severity \in Severities :
        IF p \notin DOMAIN risks \/ (p \in DOMAIN risks /\ risks[p][severity] = 0)
        THEN Rejected("RiskAnalysisView", 404)
        ELSE \E risk_data \in JsonData, outcome \in ClientOutcomes,
                api \in ApiOutcomes, unexpected \in BOOLEAN :
                EngineInteraction("RiskAnalysisView", "analyze_risk",
                                  <<risk_data>>, outcome, api, unexpected)

PMOQuestionView ==
    \E question \in {"", "Which projects are late?"} :
        IF question = ""
        THEN Rejected("PMOQuestionView", 400)
        ELSE \E context_data \in JsonData, outcome \in ClientOutcomes,
                api \in ApiOutcomes, unexpected \in BOOLEAN :
                EngineInteraction("PMOQuestionView", "answer_pmo_question",
                                  <<context_data>>, outcome, api, unexpected)

ProjectComparisonView ==
    \E project_ids \in SUBSET (1..2) :
        IF project_ids = {}
        THEN Rejected("ProjectComparisonView", 400)
        ELSE IF project_ids \cap DOMAIN projects = {}
        THEN Rejected("ProjectComparisonView", 404)
        ELSE \E projects_data \in JsonData, outcome \in ClientOutcomes,
                api \in ApiOutcomes, unexpected \in BOOLEAN :
                EngineInteraction("ProjectComparisonView", "compare_projects",
                                  <<projects_data>>, outcome, api, unexpected)

ExecutiveReportView ==
    \E portfolio_data \in JsonData, projects_data \in JsonData,
       outcome \in ClientOutcomes, api \in ApiOutcomes, unexpected \in BOOLEAN :
        EngineInteraction("ExecutiveReportView", "generate_executive_report",
                          <<portfolio_data, projects_data>>, outcome, api, unexpected)

NextAIViews ==
    \/ ProjectSummaryView
    \/ PortfolioSummaryView
    \/ RiskAnalysisView
    \/ PMOQuestionView
    \/ ProjectComparisonView
    \/ ExecutiveReportView

SpecAIViews == InitAI /\ [][NextAIViews]_vars

-----------------------------------------------------------------------------
(* The read-only reporting actions of projects/views.py and the derived    *)
(* properties of Risk and Task.  A response is held in report, a property  *)
(* value read off an instance in metrics.                                  *)

MinProbability == 1
MaxProbability == 100
MinImpact == 1
MaxImpact == 10

\* Risk.risk_score: (probability / 100) * impact, as a fraction
\* a slip: the probability is used as a number, not as a percentage
risk_score_NotPercent(probability, impact) == [num |-> probability * impact, den |-> 1]

risk_score(probability, impact) == [num |-> probability * impact, den |-> 100]

\* a slip: a task due today already counts as overdue
is_overdue_DueTodayCounts(k, now) ==
    IF k.status \in {"completed", "cancelled"} THEN FALSE
    ELSE k.due_date <= now

\* Task.is_overdue; due_date is a required column, so a stored task has one
is_overdue(k, now) ==
    IF k.status \in {"completed", "cancelled"} THEN FALSE
    ELSE k.due_date < now

\* Task.days_until_due
days_until_due(k, now) ==
    IF k.status \in {"completed", "cancelled"} THEN 0
    ELSE k.due_date - now

\* ProjectListSerializer: the derived fields of a row
ProjectListSerializer(p) ==
    [health_score |-> health_score(projects[p], risks[p], tasks[p], today),
     is_overbudget |-> is_overbudget(projects[p]),
     is_behind_schedule |-> is_behind_schedule(projects[p]),
     days_remaining |-> days_remaining(projects[p], today),
     total_risks |-> Total(risks[p]),
     high_risks |-> risks[p]["high"] + risks[p]["critical"]]

\* ProjectViewSet.dashboard_stats (GET /projects/dashboard_stats/); the
\* database compares spi with the parameter 0.9 as decimals
DashboardStats ==
    /\ LET StatusIs(st) == Cardinality({p \in DOMAIN projects : projects[p].status = st})
       IN  report' =
             [action |-> "dashboard_stats",
              total_projects |-> Cardinality(DOMAIN projects),
              on_track |-> StatusIs("on_track"),
              at_risk |-> StatusIs("at_risk"),
              delayed |-> StatusIs("delayed"),
              projects_behind_schedule |->
                  Cardinality({p \in DOMAIN projects : Val(projects[p].spi) < 90}),
              projects_overbudget |->
                  Cardinality({p \in DOMAIN projects :
                                 Val(projects[p].spent) > Val(projects[p].budget)}),
              total_risks |-> SumOver([p \in DOMAIN projects |-> Total(risks[p])],
                                      DOMAIN projects),
              high_risks |-> SumOver([p \in DOMAIN projects |->
                                        risks[p]["high"] + risks[p]["critical"]],
                                     DOMAIN projects)]
    /\ UNCHANGED <<today, store, metrics, snap, ai, site>>

\* ProjectViewSet.at_risk_projects (GET /projects/at_risk_projects/)
AtRiskProjects ==
    /\ LET selected == {p \in DOMAIN projects :
                          \/ projects[p].status \in {"at_risk", "delayed"}
                          \/ Val(projects[p].spi) < 90
                          \/ Val(projects[p].cpi) < 90}
       IN  report' = [action |-> "at_risk_projects",
                      rows |-> [p \in selected |-> ProjectListSerializer(p)]]
    /\ UNCHANGED <<today, store, metrics, snap, ai, site>>

\* TaskViewSet.overdue (GET /tasks/overdue/), rows through TaskSerializer
Overdue ==
    /\ report' =
         [action |-> "overdue",
          rows |-> [p \in DOMAIN tasks |->
                      [k \in {j \in DOMAIN tasks[p] :
                                OverdueTaskFilter(j, today) /\ tasks[p][j] > 0} |->
                         [count |-> tasks[p][k],
                          is_overdue |-> is_overdue(k, today),
                          days_until_due |-> days_until_due(k, today)]]]]
    /\ UNCHANGED <<today, store, metrics, snap, ai, site>>

\* RiskViewSet.high_priority (GET /risks/high_priority/); every Risk row of
\* the model has the default status open
HighPriority ==
    /\ report' =
         [action |-> "high_priority",
          rows |-> [p \in DOMAIN risks |->
                      [s \in {"high", "critical"} |-> risks[p][s]]]]
    /\ UNCHANGED <<today, store, metrics, snap, ai, site>>

\* risk_score read off a Risk instance with the given field values
RiskScoreRead(probability, impact) ==
    /\ metrics' = [risk |-> [probability |-> probability, impact |-> impact],
                   risk_score |-> risk_score(probability, impact)]
    /\ UNCHANGED <<today, store, report, snap, ai, site>>

\* is_overdue and days_until_due read off a stored Task
TaskRead(p, k) ==
    /\ p \in DOMAIN tasks
    /\ tasks[p][k] > 0
    /\ metrics' = [task |-> k,
                   is_overdue |-> is_overdue(k, today),
                   days_until_due |-> days_until_due(k, today)]
    /\ UNCHANGED <<today, store, report, snap, ai, site>>

\* Task.STATUS_CHOICES and due dates around the days of the calendar
TaskStatusChoices == {"not_started", "in_progress", "completed", "blocked", "cancelled"}
TaskDates == 0..(MaxDay + 1)

\* is_overdue and days_until_due read off a Task instance with the given
\* status and due date
TaskInstanceRead(status, due_date) ==
    LET k == [status |-> status, due_date |-> due_date]
    IN  /\ metrics' = [task |-> k,
                       is_overdue |-> is_overdue(k, today),
                       days_until_due |-> days_until_due(k, today)]
        /\ UNCHANGED <<today, store, report, snap, ai, site>>

\* tasks are created and their derived properties read as the days pass
NextTask ==
    \/ Tick
    \/ \E k \in TaskKinds : TaskCreate(1, k)
    \/ \E p \in DOMAIN projects, k \in TaskKinds : TaskRead(p, k)
    \/ \E status \in TaskStatusChoices, due_date \in TaskDates :
          TaskInstanceRead(status, due_date)

SpecTask == InitSnap /\ [][NextTask]_vars

\* reads and the writes of the REST API in between
NextReads ==
    \/ Tick
    \/ SnapEdit
    \/ \E k \in TaskKinds : TaskCreate(1, k)
    \/ \E p \in DOMAIN projects : HealthReport(p)
    \/ \E p \in DOMAIN projects : ReadMetrics(p)
    \/ DashboardStats
    \/ AtRiskProjects
    \/ Overdue
    \/ HighPriority
    \/ \E probability \in {MinProbability, MaxProbability},
          impact \in {MinImpact, MaxImpact} : RiskScoreRead(probability, impact)
    \/ \E p \in DOMAIN projects, k \in TaskKinds : TaskRead(p, k)

SpecReads == InitSnap /\ [][NextReads]_vars

\* risk_score over every probability and impact the validators admit
NextRisk ==
    \/ Tick
    \/ \E probability \in MinProbability..MaxProbability,
          impact \in MinImpact..MaxImpact : RiskScoreRead(probability, impact)

SpecRisk == InitSnap /\ [][NextRisk]_vars

-----------------------------------------------------------------------------
(* Accounts, the project pages of accounts/views.py and the writes to      *)
(* Project rows: the REST API, ProjectForm and import_projects_csv.  A     *)
(* money amount is a count of hundredths, as are spi and cpi.  The         *)
(* response of a page is held in http.                                     *)

MaxProjects == 3
MaxActivity == 2

\* a User row with the role of its UserProfile
Account(username, email, role, is_superuser) ==
    [username |-> username, email |-> email, is_superuser |-> is_superuser,
     profile |-> Some([role |-> role])]

\* the accounts of an office: one of each kind the permission checks tell apart
Staff ==
    <<Account("dana", "dana@pmo", "pmo_director", FALSE),
      Account("mark", "mark@pmo", "project_manager", FALSE),
      Account("tess", "tess@pmo", "team_member", FALSE),
      Account("root", "root@pmo", "stakeholder", TRUE)>>

\* request.user: 0 is AnonymousUser
Requesters == 0..Len(users)

Methods == {"GET", "POST"}

\* request.POST and request.FILES of a GET request
NoData == <<>>

\* UserProfile.is_pmo_director
is_pmo_director(u) ==
    Val(u.profile).role \in {"admin", "pmo_director"} \/ u.is_superuser

\* UserProfile.is_project_manager
is_project_manager(u) ==
    Val(u.profile).role \in {"admin", "pmo_director", "project_manager"} \/ u.is_superuser

\* UserProfile.can_edit_projects
can_edit_projects(u) == is_project_manager(u)

\* log_activity: one more ActivityLog row
log_activity(action, model_name) ==
    [activity EXCEPT ![[action |-> action, model_name |-> model_name]] = @ + 1]

MinCompletion == 0
MaxCompletion == 100

\* the posted fields of a project: completion_percentage, budget and spent
Submissions ==
    {[completion_percentage |-> 50, budget |-> Some(10000), spent |-> Some(0)],
     [completion_percentage |-> MaxCompletion + 1, budget |-> Some(10000), spent |-> Some(0)],
     [completion_percentage |-> MinCompletion - 1, budget |-> Some(10000), spent |-> Some(0)],
     [completion_percentage |-> MaxCompletion, budget |-> Some(-500), spent |-> Some(-500)]}

\* a GET of the form page, or a POST of its fields
FormRequests ==
    {[method |-> "GET", data |-> NoData]} \cup [method : {"POST"}, data : Submissions]

\* a slip: completion_percentage declared without its validators
is_valid_NoRange(data) == TRUE

\* ProjectForm.is_valid and the serializer's is_valid: the validators
\* declared on the model fields pass; budget and spent declare none
is_valid(data) ==
    /\ data.completion_percentage >= MinCompletion
    /\ data.completion_percentage <= MaxCompletion

\* the row a valid submission is saved as
Saved(instance, data) ==
    [instance EXCEPT !.completion_percentage = data.completion_percentage,
                     !.budget = data.budget,
                     !.spent = data.spent]

\* INSERT of a Project row with no child rows yet
Insert(id, row) ==
    /\ projects' = (id :> row) @@ projects
    /\ risks' = (id :> NoRisks) @@ risks
    /\ tasks' = (id :> NoTasks) @@ tasks
    /\ issues' = (id :> NoIssues) @@ issues
    /\ resources' = (id :> 0) @@ resources
    /\ milestones' = (id :> 0) @@ milestones
    /\ snapshots' = (id :> NoSnapshots) @@ snapshots
    /\ sequence' = id

Without(f, id) == [i \in DOMAIN f \ {id} |-> f[i]]

\* a slip: Task.project without on_delete=models.CASCADE
Delete_KeepsTasks(id) ==
    /\ projects' = Without(projects, id)
    /\ risks' = Without(risks, id)
    /\ tasks' = tasks
    /\ issues' = Without(issues, id)
    /\ resources' = Without(resources, id)
    /\ milestones' = Without(milestones, id)
    /\ snapshots' = Without(snapshots, id)

\* Project.delete(): on_delete=models.CASCADE on the project key of Risk,
\* Task, Resource, Milestone, Issue and ProjectSnapshot
Delete(id) ==
    /\ projects' = Without(projects, id)
    /\ risks' = Without(risks, id)
    /\ tasks' = Without(tasks, id)
    /\ issues' = Without(issues, id)
    /\ resources' = Without(resources, id)
    /\ milestones' = Without(milestones, id)
    /\ snapshots' = Without(snapshots, id)

\* the response of a page that changed nothing
Page(view, u, method, pk, outcome) ==
    /\ http' = [view |-> view, user |-> u, method |-> method, outcome |-> outcome]
    /\ UNCHANGED <<today, store, report, metrics, snap, settings, engine,
                   anthropic, result, site>>

\* ProjectViewSet create (POST /projects/)
ProjectApiCreate(data) ==
    /\ sequence < MaxProjects
    /\ is_valid(data)
    /\ Insert(sequence + 1, Saved(DefaultProject, data))
    /\ report' = NoReport
    /\ UNCHANGED <<today, metrics, run, ai, users, activity, pending>>

\* ProjectViewSet update of the posted fields (PUT/PATCH /projects/<id>/)
ProjectApiUpdate(p, data) ==
    /\ p \in DOMAIN projects
    /\ is_valid(data)
    /\ projects' = [projects EXCEPT ![p] = Saved(@, data)]
    /\ report' = NoReport
    /\ UNCHANGED <<today, risks, tasks, metrics, issues, resources, milestones,
                   snap, ai, site>>

\* project_create_view behind login_required
project_create_view(u, method, data) ==
    LET view == "project_create_view"
    IN  IF u = 0 THEN Page(view, u, method, 0, "login")
        ELSE IF users[u].profile = None THEN Page(view, u, method, 0, "error")
        ELSE IF ~can_edit_projects(users[u]) THEN Page(view, u, method, 0, "denied")
        ELSE IF method = "POST" /\ is_valid(data)
        THEN /\ sequence < MaxProjects
             /\ Total(activity) < MaxActivity
             /\ Insert(sequence + 1, Saved(DefaultProject, data))
             /\ activity' = log_activity("create", "Project")
             /\ http' = [view |-> view, user |-> u, method |-> method,
                         outcome |-> "saved"]
             /\ report' = NoReport
             /\ UNCHANGED <<today, metrics, run, settings, engine, anthropic,
                            result, users, pending>>
        ELSE Page(view, u, method, 0, "form")

\* project_edit_view behind login_required
project_edit_view(u, method, pk, data) ==
    LET view == "project_edit_view"
    IN  IF u = 0 THEN Page(view, u, method, pk, "login")
        ELSE IF pk \notin DOMAIN projects THEN Page(view, u, method, pk, "not found")
        ELSE IF users[u].profile = None THEN Page(view, u, method, pk, "error")
        ELSE IF ~can_edit_projects(users[u]) THEN Page(view, u, method, pk, "denied")
        ELSE IF method = "POST" /\ is_valid(data)
        THEN /\ Total(activity) < MaxActivity
             /\ projects' = [projects EXCEPT ![pk] = Saved(@, data)]
             /\ activity' = log_activity("update", "Project")
             /\ http' = [view |-> view, user |-> u, method |-> method,
                         outcome |-> "saved"]
             /\ report' = NoReport
             /\ UNCHANGED <<today, risks, tasks, metrics, issues, resources,
                            milestones, snap, settings, engine, anthropic,
                            result, users, pending, sequence>>
        ELSE Page(view, u, method, pk, "form")

\* a slip: the role is not looked at
project_delete_view_AnyUser(u, method, pk) ==
    LET view == "project_delete_view"
    IN  IF u = 0 THEN Page(view, u, method, pk, "login")
        ELSE IF pk \notin DOMAIN projects THEN Page(view, u, method, pk, "not found")
        ELSE IF method = "POST"
        THEN /\ Total(activity) < MaxActivity
             /\ activity' = log_activity("delete", "Project")
             /\ Delete(pk)
             /\ http' = [view |-> view, user |-> u, method |-> method,
                         outcome |-> "deleted"]
             /\ report' = NoReport
             /\ UNCHANGED <<today, metrics, run, settings, engine, anthropic,
                            result, users, pending, sequence>>
        ELSE Page(view, u, method, pk, "confirm")

\* project_delete_view behind login_required
project_delete_view(u, method, pk) ==
    LET view == "project_delete_view"
    IN  IF u = 0 THEN Page(view, u, method, pk, "login")
        ELSE IF pk \notin DOMAIN projects THEN Page(view, u, method, pk, "not found")
        ELSE IF users[u].profile = None THEN Page(view, u, method, pk, "error")
        ELSE IF ~is_pmo_director(users[u]) THEN Page(view, u, method, pk, "denied")
        ELSE IF method = "POST"
        THEN /\ Total(activity) < MaxActivity
             /\ activity' = log_activity("delete", "Project")
             /\ Delete(pk)
             /\ http' = [view |-> view, user |-> u, method |-> method,
                         outcome |-> "deleted"]
             /\ report' = NoReport
             /\ UNCHANGED <<today, metrics, run, settings, engine, anthropic,
                            result, users, pending, sequence>>
        ELSE Page(view, u, method, pk, "confirm")

\* the cells of an uploaded file.  A cell is None when the file has no such
\* column, else Some(text).
IdCells == ("1" :> 1 @@ "2" :> 2 @@ "7" :> 7)
DateCells == ("0001-01-02" :> 2)
DecimalCells == ("250.00" :> 25000 @@ "-5.00" :> -500)
status_map ==
    ("On Track" :> "on_track" @@ "At Risk" :> "at_risk" @@
     "Delayed" :> "delayed" @@ "Completed" :> "completed")

\* DateField.to_python / DecimalField.to_python on the text of a cell, as
\* run by Model.save() when the value is prepared for the database
to_python(cells, text) ==
    IF text \in DOMAIN cells THEN Ok(Some(cells[text])) ELSE Raise("ValidationError")

CsvRow ==
    [update1 |-> [project_id |-> Some("1"), start_date |-> Some("0001-01-02"),
                  budget |-> Some("250.00"), status |-> "At Risk"],
     negative2 |-> [project_id |-> Some("2"), start_date |-> None,
                    budget |-> Some("-5.00"), status |-> "Cancelled"],
     baddate2 |-> [project_id |-> Some("2"), start_date |-> Some("02/01/0001"),
                   budget |-> Some("250.00"), status |-> "Delayed"],
     badbudget1 |-> [project_id |-> Some("1"), start_date |-> None,
                     budget |-> Some("abc"), status |-> "On Track"],
     nomatch |-> [project_id |-> Some("7"), start_date |-> None,
                  budget |-> Some("250.00"), status |-> "Delayed"],
     blank |-> [project_id |-> Some(""), start_date |-> None,
                budget |-> None, status |-> ""],
     badid |-> [project_id |-> Some("x"), start_date |-> None,
                budget |-> None, status |-> ""]]

\* request.FILES.get('file'): None when nothing was uploaded
CsvFiles ==
    {None, Some([name |-> "projects.txt", rows |-> <<CsvRow.update1>>])} \cup
    {Some([name |-> "projects.csv", rows |-> rs]) :
        rs \in {<<>>,
                <<CsvRow.update1>>,
                <<CsvRow.negative2>>,
                <<CsvRow.badbudget1>>,
                <<CsvRow.update1, CsvRow.baddate2>>,
                <<CsvRow.nomatch, CsvRow.blank>>,
                <<CsvRow.blank, CsvRow.badid>>}}

\* a GET of the import page, or a POST with or without an upload
ImportRequests ==
    {[method |-> "GET", file |-> None]} \cup [method : {"POST"}, file : CsvFiles]

\* the update branch of the loop for one row: the assignments, then save()
ImportRow(project, row) ==
    LET start_date == IF row.start_date = None THEN Ok(project.start_date)
                      ELSE to_python(DateCells, Val(row.start_date))
        budget == IF row.budget = None THEN Ok(project.budget)
                  ELSE to_python(DecimalCells, Val(row.budget))
        status == IF row.status \in DOMAIN status_map THEN status_map[row.status]
                  ELSE project.status
    IN  IF start_date.raised THEN start_date
        ELSE IF budget.raised THEN budget
        ELSE Ok([project EXCEPT !.start_date = start_date.value,
                                !.budget = budget.value,
                                !.status = status])

\* the loop over the rows: each save() is committed as it is made, and the
\* first exception ends the loop
RECURSIVE ImportRows(_, _, _)
ImportRows(rows, ps, imported_count) ==
    IF rows = <<>>
    THEN [projects |-> ps, imported_count |-> imported_count, error |-> None]
    ELSE LET row == Head(rows)
             project_id == row.project_id
         IN  IF project_id = None \/ project_id = Some("")
             THEN ImportRows(Tail(rows), ps, imported_count + 1)
             ELSE IF Val(project_id) \notin DOMAIN IdCells
             THEN [projects |-> ps, imported_count |-> imported_count,
                   error |-> Some("ValueError")]
             ELSE LET id == IdCells[Val(project_id)]
                  IN  IF id \notin DOMAIN ps
                      THEN ImportRows(Tail(rows), ps, imported_count + 1)
                      ELSE LET saved == ImportRow(ps[id], row)
                           IN  IF saved.raised
                               THEN [projects |-> ps, imported_count |-> imported_count,
                                     error |-> Some(saved.value)]
                               ELSE ImportRows(Tail(rows), [ps EXCEPT ![id] = saved.value],
                                               imported_count + 1)

\* import_projects_csv behind login_required
import_projects_csv(u, method, file) ==
    LET view == "import_projects_csv"
    IN  IF u = 0 THEN Page(view, u, method, 0, "login")
        ELSE IF method # "POST" THEN Page(view, u, method, 0, "import page")
        ELSE IF file = None THEN Page(view, u, method, 0, "No file uploaded")
        ELSE IF Val(file).name \notin {"projects.csv"}
        THEN Page(view, u, method, 0, "File must be CSV format")
        ELSE LET done == ImportRows(Val(file).rows, projects, 0)
             IN  /\ projects' = done.projects
                 /\ http' = [view |-> view, user |-> u, method |-> method,
                             imported_count |-> done.imported_count,
                             outcome |-> IF done.error = None
                                         THEN "Successfully imported"
                                         ELSE "Error importing CSV"]
                 /\ report' = NoReport
                 /\ UNCHANGED <<today, risks, tasks, metrics, issues, resources,
                                milestones, snap, settings, engine, anthropic,
                                result, site>>

\* two projects, a project manager and a team member
InitWrites ==
    /\ today = 1
    /\ projects = (1 :> DefaultProject @@ 2 :> [DefaultProject EXCEPT !.status = "at_risk"])
    /\ risks = (1 :> [NoRisks EXCEPT !["high"] = 1] @@ 2 :> NoRisks)
    /\ tasks = (1 :> NoTasks @@ 2 :> NoTasks)
    /\ issues = (1 :> [NoIssues EXCEPT !["open"] = 1] @@ 2 :> NoIssues)
    /\ resources = (1 :> 1 @@ 2 :> 1)
    /\ milestones = (1 :> 1 @@ 2 :> 1)
    /\ report = NoReport
    /\ metrics = NoMetrics
    /\ snapshots = (1 :> NoSnapshots @@ 2 :> NoSnapshots)
    /\ run = NoRuns
    /\ EngineUnused
    /\ users = SubSeq(Staff, 2, 3)
    /\ activity = NoActivity
    /\ pending = NoPending
    /\ sequence = 2

\* projects are written through the REST API, the project form and the
\* CSV import
NextWrites ==
    \/ \E data \in Submissions : ProjectApiCreate(data)
    \/ \E p \in DOMAIN projects, data \in Submissions : ProjectApiUpdate(p, data)
    \/ \E u \in Requesters, req \in FormRequests :
         project_create_view(u, req.method, req.data)
    \/ \E u \in Requesters, req \in FormRequests, pk \in 1..sequence :
         project_edit_view(u, req.method, pk, req.data)
    \/ \E u \in Requesters, req \in ImportRequests :
         import_projects_csv(u, req.method, req.file)

SpecWrites == InitWrites /\ [][NextWrites]_vars

\* two projects with child rows of every kind
TwoProjects ==
    /\ today = 1
    /\ projects = (1 :> DefaultProject @@ 2 :> [DefaultProject EXCEPT !.status = "at_risk"])
    /\ risks = (1 :> [NoRisks EXCEPT !["high"] = 1, !["critical"] = 1] @@
                2 :> [NoRisks EXCEPT !["medium"] = 1])
    /\ tasks = (1 :> [NoTasks EXCEPT ![[status |-> "blocked", due_date |-> 1]] = 1] @@
                2 :> [NoTasks EXCEPT ![[status |-> "completed", due_date |-> 1]] = 2])
    /\ issues = (1 :> [NoIssues EXCEPT !["open"] = 1] @@
                 2 :> [NoIssues EXCEPT !["resolved"] = 1])
    /\ resources = (1 :> 1 @@ 2 :> 2)
    /\ milestones = (1 :> 1 @@ 2 :> 1)
    /\ report = NoReport
    /\ metrics = NoMetrics
    /\ snapshots = (1 :> NoSnapshots @@ 2 :> NoSnapshots)
    /\ run = NoRuns
    /\ EngineUnused
    /\ activity = NoActivity
    /\ pending = NoPending
    /\ sequence = 2

\* the two projects and a PMO director
InitCascade ==
    /\ TwoProjects
    /\ users = SubSeq(Staff, 1, 1)

\* projects, risks and snapshots are created and projects deleted; the
\* snapshot command is not running while a project is deleted
NextCascade ==
    \/ \E u \in Requesters, req \in FormRequests :
         project_create_view(u, req.method, req.data)
    \/ RiskCreate(2, "high")
    \/ StartRun("A")
    \/ RunGet("A")
    \/ RunCreate("A")
    \/ RunUpdate("A")
    \/ RunExit("A")
    \/ \E u \in Requesters, method \in Methods, pk \in 1..sequence :
         /\ run["A"].pc = "idle"
         /\ project_delete_view(u, method, pk)

SpecCascade == InitCascade /\ [][NextCascade]_vars

\* the two projects and the whole staff
InitPages ==
    /\ TwoProjects
    /\ users = Staff

\* anybody, logged in or not, requests the project pages with either method
NextPages ==
    \/ \E u \in Requesters, req \in FormRequests :
         project_create_view(u, req.method, req.data)
    \/ \E u \in Requesters, req \in FormRequests, pk \in 1..sequence :
         project_edit_view(u, req.method, pk, req.data)
    \/ \E u \in Requesters, method \in Methods, pk \in 1..sequence :
         project_delete_view(u, method, pk)

SpecPages == InitPages /\ [][NextPages]_vars

\* what visitors type into the registration form.  The role field is posted
\* as free text; "dana" and "dana@pmo" belong to the account already there.
Usernames == {"dana", "ann", "bob"}
Emails == {"dana@pmo", "ann@pmo.sa", "ann@PMO.SA"}
Registrations ==
    [username : Usernames, email : Emails, role : {"project_manager"},
     password_confirmed : BOOLEAN]

\* BaseUserManager.normalize_email, called by create_user: the domain part
\* is lowercased
normalize_email ==
    ("dana@pmo" :> "dana@pmo" @@ "ann@pmo.sa" :> "ann@pmo.sa" @@ "ann@PMO.SA" :> "ann@pmo.sa")

\* User.objects.filter(username=username).exists()
username_exists(username) == \E i \in 1..Len(users) : users[i].username = username

\* User.objects.filter(email=email).exists()
email_exists(email) == \E i \in 1..Len(users) : users[i].email = email

\* the request of visitor v moves on to statement pc, or ends with a message
Goes(v, pc) == pending' = [pending EXCEPT ![v].pc = pc]
Ends(v, message) ==
    pending' = [pending EXCEPT ![v].pc = "idle", ![v].message = message]

\* register_view up to its first query: the redirect of a logged-in user,
\* the page for a GET, and the comparison of the two passwords
register_view(v, u, method, form) ==
    /\ pending[v].pc = "idle"
    /\ IF u # 0
       THEN pending' = [pending EXCEPT ![v] =
                           [IdleRegistration EXCEPT !.message = "dashboard"]]
       ELSE IF method # "POST"
       THEN pending' = [pending EXCEPT ![v] = [IdleRegistration EXCEPT !.message = "form"]]
       ELSE IF ~form.password_confirmed
       THEN pending' = [pending EXCEPT ![v] =
                           [IdleRegistration EXCEPT !.message = "Passwords do not match"]]
       ELSE pending' = [pending EXCEPT ![v] =
                           [IdleRegistration EXCEPT !.pc = "username",
                                                    !.username = form.username,
                                                    !.email = form.email,
                                                    !.role = form.role]]
    /\ UNCHANGED <<today, store, report, metrics, snap, ai, users, activity, sequence>>

\* elif User.objects.filter(username=username).exists()
CheckUsername(v) ==
    /\ pending[v].pc = "username"
    /\ IF username_exists(pending[v].username)
       THEN Ends(v, "Username already exists")
       ELSE Goes(v, "email")
    /\ UNCHANGED <<today, store, report, metrics, snap, ai, users, activity, sequence>>

\* elif User.objects.filter(email=email).exists()
CheckEmail(v) ==
    /\ pending[v].pc = "email"
    /\ IF email_exists(pending[v].email)
       THEN Ends(v, "Email already registered")
       ELSE Goes(v, "create")
    /\ UNCHANGED <<today, store, report, metrics, snap, ai, users, activity, sequence>>

\* the unique index of auth_user.username refuses the INSERT; the table has
\* no index on email
UniqueUsername(username) == username_exists(username)

\* User.objects.create_user: the INSERT of the row.  IntegrityError is not
\* caught by the view and ends the request.
create_user(v) ==
    /\ pending[v].pc = "create"
    /\ IF UniqueUsername(pending[v].username)
       THEN /\ Ends(v, "IntegrityError")
            /\ UNCHANGED users
       ELSE /\ users' = Append(users, [username |-> pending[v].username,
                                       email |-> normalize_email[pending[v].email],
                                       is_superuser |-> FALSE,
                                       profile |-> None])
            /\ pending' = [pending EXCEPT ![v].pc = "signal", ![v].user = Len(users) + 1]
    /\ UNCHANGED <<today, store, report, metrics, snap, ai, activity, sequence>>

\* the post_save receivers of User: create_user_profile makes the profile
\* with the default role, save_user_profile saves it again
create_user_profile(v) ==
    /\ pending[v].pc = "signal"
    /\ users' = [users EXCEPT ![pending[v].user].profile = Some([role |-> "team_member"])]
    /\ Goes(v, "profile")
    /\ UNCHANGED <<today, store, report, metrics, snap, ai, activity, sequence>>

\* profile = user.profile; profile.role = role; profile.save()
SaveRole(v) ==
    /\ pending[v].pc = "profile"
    /\ users' = [users EXCEPT ![pending[v].user].profile = Some([role |-> pending[v].role])]
    /\ Goes(v, "log")
    /\ UNCHANGED <<today, store, report, metrics, snap, ai, activity, sequence>>

\* log_activity(user, 'create', 'User', ...) and the redirect to the login page
RegisterDone(v) ==
    /\ pending[v].pc = "log"
    /\ activity' = log_activity("create", "User")
    /\ Ends(v, "Registration successful! Please login.")
    /\ UNCHANGED <<today, store, report, metrics, snap, ai, users, sequence>>

\* the visitors' requests are served concurrently, one statement at a time
NextRegister ==
    \/ \E v \in Visitors, u \in Requesters, method \in Methods, form \in Registrations :
         register_view(v, u, method, form)
    \/ \E v \in Visitors : CheckUsername(v)
    \/ \E v \in Visitors : CheckEmail(v)
    \/ \E v \in Visitors : create_user(v)
    \/ \E v \in Visitors : create_user_profile(v)
    \/ \E v \in Visitors : SaveRole(v)
    \/ \E v \in Visitors : RegisterDone(v)

SpecRegister == InitCascade /\ [][NextRegister]_vars

-----------------------------------------------------------------------------
(* Claims on Project.health_score, checked under SpecHealth on the project *)
(* a health_report response was computed from.                             *)

Reported == report # NoReport
ReportedProject == projects[report.project]
ReportedSpi == Val(ReportedProject.spi)
ReportedCpi == Val(ReportedProject.cpi)
ReportedScore == report.health_score.value

\* the counts as the claims define them, read off the rows
HighSeverityRisks(p) == risks[p]["high"]
OverdueTasks(p) ==
    SumOver(tasks[p], {k \in TaskKinds :
                          /\ k.status = "not_started" \/ k.status = "in_progress"
                          /\ k.due_date < today})

PenalisedScore(s, c, H, T) ==
    Max(0, 100 - s - c - Min(10 * H, 30) - Min(5 * T, 20))

\* C1: for every project, whatever its SPI, CPI, number of high-severity
\* risks and number of overdue tasks, health_score returns an integer h
\* with 0 <= h <= 100.
C1_HealthScoreInRange ==
    Reported =>
        /\ ~report.health_score.raised
        /\ ReportedScore \in 0..100

C1_Witness ==
    /\ Reported
    /\ OverdueTasks(report.project) > 4
    /\ HighSeverityRisks(report.project) > 3
    /\ ReportedScore = 0

\* C2: health_score equals max(0, 100 - s - c - min(10*H, 30) - min(5*T, 20))
\* where s is 30 if SPI < 0.7, else 15 if SPI < 0.9, else 0; c is 20 if
\* CPI < 0.7, else 10 if CPI < 0.9, else 0; H is the number of risks of
\* severity exactly 'high'; T is the number of tasks not_started or
\* in_progress whose due date is strictly before today.
C2_HealthScoreFormula ==
    Reported =>
        ReportedScore =
            PenalisedScore(IF ReportedSpi < 70 THEN 30
                           ELSE IF ReportedSpi < 90 THEN 15 ELSE 0,
                           IF ReportedCpi < 70 THEN 20
                           ELSE IF ReportedCpi < 90 THEN 10 ELSE 0,
                           HighSeverityRisks(report.project),
                           OverdueTasks(report.project))

C2_Witness ==
    /\ Reported
    /\ ReportedSpi = 90
    /\ HighSeverityRisks(report.project) > 0
    /\ OverdueTasks(report.project) > 0

\* C3: for a stored project whose SPI is exactly 0.90 health_score applies
\* no SPI penalty; at SPI exactly 0.70 it applies the 15-point penalty and
\* not the 30-point one; likewise CPI 0.90 gives no penalty and CPI 0.70
\* the 10-point penalty.
C3_StrictBoundaries ==
    Reported =>
        \E s \in (IF ReportedSpi = 90 THEN {0}
                  ELSE IF ReportedSpi = 70 THEN {15} ELSE {0, 15, 30}),
           c \in (IF ReportedCpi = 90 THEN {0}
                  ELSE IF ReportedCpi = 70 THEN {10} ELSE {0, 10, 20}) :
            ReportedScore = PenalisedScore(s, c,
                                           HighSeverityRisks(report.project),
                                           OverdueTasks(report.project))

C3_Witness ==
    /\ Reported
    /\ ReportedSpi = 90
    /\ ReportedCpi = 70

\* C4: health_score is monotonically non-increasing in each input
\* separately: a project that differs from the reported one in one input
\* only, and is worse there (lower SPI, lower CPI, one more risk, one more
\* task, a later today), scores no higher.
C4_Monotone ==
    Reported =>
        LET p == report.project
            score(q, rs, ts, now) == health_score(q, rs, ts, now).value
        IN  /\ \A s \in SpiValues :
                 s <= ReportedSpi =>
                    score([projects[p] EXCEPT !.spi = Some(s)],
                          risks[p], tasks[p], today) <= ReportedScore
            /\ \A c \in CpiValues :
                 c <= ReportedCpi =>
                    score([projects[p] EXCEPT !.cpi = Some(c)],
                          risks[p], tasks[p], today) <= ReportedScore
            /\ \A sev \in Severities :
                 score(projects[p], [risks[p] EXCEPT ![sev] = @ + 1],
                       tasks[p], today) <= ReportedScore
            /\ \A k \in TaskKinds :
                 score(projects[p], risks[p],
                       [tasks[p] EXCEPT ![k] = @ + 1], today) <= ReportedScore
            /\ score(projects[p], risks[p], tasks[p], today + 1) <= ReportedScore

C4_Witness ==
    /\ Reported
    /\ ReportedSpi = 86
    /\ ReportedCpi = 92
    /\ HighSeverityRisks(report.project) = 1
    /\ health_score([ReportedProject EXCEPT !.spi = Some(69)],
                    risks[report.project], tasks[report.project], today).value
         < ReportedScore
    /\ health_score(ReportedProject,
                    [risks[report.project] EXCEPT !["high"] = @ + 1],
                    tasks[report.project], today).value
         < ReportedScore

C5_Scenario ==
    /\ Reported
    /\ ReportedSpi = 86
    /\ ReportedCpi = 92
    /\ HighSeverityRisks(report.project) = 1
    /\ OverdueTasks(report.project) = 2

\* C5 (as stated): a project with SPI = 0.86, CPI = 0.92, exactly one
\* high-severity risk and exactly two overdue tasks has health_score = 55.
C5_ScenarioScores55 == C5_Scenario => ReportedScore = 55

\* C5 (amended): a project with SPI = 0.86, CPI = 0.92, exactly one
\* high-severity risk and exactly two overdue tasks has health_score = 65:
\* CPI 0.92 is not below 0.9 and carries no penalty.
C5_ScenarioScores65 == C5_Scenario => ReportedScore = 65

C5_Witness == C5_Scenario /\ ReportedScore = 65

-----------------------------------------------------------------------------
(* Claims on the derived properties, checked under SpecMetrics *)

MetricsRead == metrics # NoMetrics

NullFieldsRead ==
    LET p == projects[metrics.project]
    IN  [is_overbudget |-> p.budget = None \/ p.spent = None,
         is_behind_schedule |-> p.spi = None,
         budget_variance |-> p.budget = None \/ p.spent = None,
         days_remaining |-> p.planned_end_date = None,
         health_score |-> p.spi = None \/ p.cpi = None,
         schedule_variance |-> p.budget = None \/ p.start_date = None
                                  \/ p.planned_end_date = None,
         cost_variance |-> p.budget = None \/ p.spent = None,
         budget_burn_rate |-> p.start_date = None \/ p.spent = None,
         projected_completion_date |-> p.planned_end_date = None \/ p.spi = None
                                          \/ p.start_date = None,
         projected_final_cost |-> p.budget = None \/ p.cpi = None]

\* 0, false, or the unmodified planned/original value
SafeDefault(m, v) ==
    LET p == projects[metrics.project]
    IN  CASE m \in {"is_overbudget", "is_behind_schedule"} -> v = FALSE
          [] m \in {"days_remaining", "health_score"} -> v = 0
          [] m = "projected_completion_date" -> v = p.planned_end_date
          [] m = "projected_final_cost" -> v = p.budget
          [] OTHER -> v.num = 0

\* C6: every metric of Project returns a value and never raises when any of
\* the fields it reads (budget, spent, spi, cpi, start_date,
\* planned_end_date) is null; the result in that case is 0, false, or the
\* unmodified planned/original value.
C6_NeverRaises ==
    MetricsRead =>
        \A m \in MetricNames :
            /\ ~metrics.result[m].raised
            /\ NullFieldsRead[m] => SafeDefault(m, metrics.result[m].value)

C6_Witness ==
    /\ MetricsRead
    /\ projects[metrics.project].spi = None
    /\ metrics.result["is_behind_schedule"].raised
    /\ ~metrics.result["is_overbudget"].raised

-----------------------------------------------------------------------------
(* Claims on create_snapshots *)

Active(r) == run[r].pc \in {"get", "create", "update"}

\* C7: after any sequence of create_snapshots runs (on the same or different
\* dates, also two runs interleaved) mixed with project edits, there is at
\* most one ProjectSnapshot row for each (project, snapshot_date) pair.
C7_OneRowPerProjectAndDate ==
    \A p \in DOMAIN snapshots : \A d \in Days : Len(snapshots[p][d]) <= 1

\* two overlapping runs on the same date both found no row for the project,
\* one has inserted it and the other is about to
C7_Witness ==
    \E r \in Runs, o \in Runs :
        /\ r # o
        /\ run[r].pc = "create"
        /\ run[o].today = run[r].today
        /\ run[o].created_count > 0
        /\ Len(snapshots[Head(run[r].queue)][run[r].today]) = 1

C9_OtherDatesUntouched ==
    [][\A p \in DOMAIN snapshots : \A d \in Days :
          snapshots'[p][d] # snapshots[p][d] =>
              \E r \in Runs :
                  /\ Active(r)
                  /\ run[r].today = d
                  /\ run'[r] # run[r]]_vars

\* a run on a later date has finished and the rows of the earlier date are
\* still there beside its own
C9_Witness ==
    \E r \in Runs :
        /\ run[r].pc = "done"
        /\ run[r].today = 2
        /\ \A p \in DOMAIN snapshots :
              /\ Len(snapshots[p][1]) = 1
              /\ Len(snapshots[p][2]) = 1
              /\ snapshots[p][1] # snapshots[p][2]

-----------------------------------------------------------------------------
(* Claims on the AI engine, checked under SpecAI.                          *)

NoCredential == settings = None \/ settings = Some(<<>>)

\* C10: when ANTHROPIC_API_KEY is missing or empty, the engine is in demo
\* mode and holds no client, the anthropic client has been neither
\* constructed nor called, and what the last operation returned is the
\* demo payload, whose demo_mode is true
C10_DemoWithoutCredential ==
    NoCredential =>
        /\ anthropic.constructions = 0
        /\ anthropic.requests = 0
        /\ engine # NoEngine => (engine.demo_mode /\ engine.client = None)
        /\ result # NoResult =>
             /\ ~result.returned.raised
             /\ result.returned.value = get_demo_response
             /\ result.returned.value.demo_mode

\* the empty key is configured and the executive report has been asked for
C10_Witness ==
    /\ settings = Some(<<>>)
    /\ engine # NoEngine
    /\ result # NoResult
    /\ result.op = "generate_executive_report"
    /\ result.returned = Ok(get_demo_response)

\* the failures of the adapter, by where they arise
MissingCredential == NoCredential
MalformedCredential ==
    /\ ~NoCredential
    /\ settings # Some(<<"demo-mode">>)
    /\ check_demo_mode(settings).demo_mode
ConstructionFailed ==
    /\ engine # NoEngine
    /\ ~check_demo_mode(settings).demo_mode
    /\ engine.demo_mode
CallFailed ==
    /\ engine # NoEngine
    /\ ~engine.demo_mode
    /\ anthropic.last.kind \in {"empty_content", "no_content", "APIError", "ImportError"}
Returned == result # NoResult

\* C11: for every failure of the adapter (missing credential, malformed
\* credential, client construction failure, an exception of the external
\* call, an empty completion) the operation returns, without raising, a
\* payload with the error flag set, a message under response and
\* success = false
C11_ErrorPayloadOnEveryFailure ==
    (Returned /\ (MissingCredential \/ MalformedCredential \/ ConstructionFailed \/ CallFailed)) =>
        /\ ~result.returned.raised
        /\ result.returned.value.error
        /\ result.returned.value.response # <<>>
        /\ ~result.returned.value.success

\* C11 as the code has it: every failure returns, without raising, a payload
\* with a message under response and success = false; a failure of the
\* external call carries the error flag, and a failure of the credential or
\* of the client construction carries demo_mode = true and no error flag
C11_FailurePayloads ==
    /\ (Returned /\ (MissingCredential \/ MalformedCredential \/ ConstructionFailed)) =>
          /\ ~result.returned.raised
          /\ result.returned.value.response = <<"Demo Mode Response">>
          /\ ~result.returned.value.success
          /\ result.returned.value.demo_mode
          /\ ~result.returned.value.error
    /\ (Returned /\ CallFailed) =>
          /\ ~result.returned.raised
          /\ result.returned.value.response = <<"error">>
          /\ ~result.returned.value.success
          /\ result.returned.value.error
          /\ ~result.returned.value.demo_mode

\* an operation has returned under a key of the wrong format
C11_Witness ==
    /\ Returned
    /\ settings = Some(<<"other">>)
    /\ MalformedCredential
    /\ result.returned = Ok(get_demo_response)

Completed ==
    /\ Returned
    /\ ~engine.demo_mode
    /\ anthropic.last.kind = "message"

\* C12: on a successful completion the adapter first parses the returned
\* text as JSON and returns the parsed result; only when the parse fails
\* does it return the text wrapped under the key response
C12_ParsesJsonFirst ==
    Completed =>
        LET parsed == json_loads(anthropic.last.text)
            value == result.returned.value
        IN  IF parsed.raised
            THEN value.response = anthropic.last.text
            ELSE /\ DOMAIN value = DOMAIN parsed.value
                 /\ \A k \in DOMAIN value : value[k] = parsed.value[k]

\* a completion whose text is a JSON object has been returned
C12_Witness ==
    /\ Completed
    /\ ~json_loads(anthropic.last.text).raised
    /\ result.returned.value.success

Served == http # NoHttp

\* C13: an AI endpoint answers 200 only if the engine was not in demo mode
\* and the payload carried no error flag; demo mode or an error payload
\* gives 503, an exception during the engine interaction gives 500, and the
\* view always answers with a status (no exception leaves it)
C13_ViewStatuses ==
    Served =>
        /\ http.status \in {200, 400, 404, 500, 503}
        /\ http.status = 200 =>
             /\ engine # NoEngine
             /\ ~engine.demo_mode
             /\ Returned
             /\ ~result.returned.raised
             /\ ~result.returned.value.error
        /\ (engine # NoEngine /\ engine.demo_mode) => http.status = 503
        /\ (Returned /\ ~result.returned.raised /\ result.returned.value.error) =>
             http.status = 503
        /\ (http.caught \/ (Returned /\ result.returned.raised)) => http.status = 500

\* the executive report has been served with a completion
C13_Witness ==
    /\ Served
    /\ http.view = "ExecutiveReportView"
    /\ http.status = 200
    /\ result.returned.value.success

-----------------------------------------------------------------------------
(* Claims on the read-only actions, checked under SpecReads.               *)

\* a step that produced a response or a property value
ReadStep ==
    \/ (report' # report /\ report' # NoReport)
    \/ (metrics' # metrics /\ metrics' # NoMetrics)

\* C14: evaluating a derived metric or serving a read-only reporting action
\* (health_report, dashboard_stats, at_risk_projects, overdue,
\* high_priority) leaves every stored Project, Risk, Task, Resource,
\* Milestone, Issue and ProjectSnapshot record unchanged
C14_ReadsLeaveStoreUnchanged ==
    [][ReadStep => UNCHANGED <<projects, risks, tasks, resources, milestones,
                               issues, snapshots>>]_vars

\* a health report has been served for an edited project with tasks
C14_Witness ==
    /\ Reported
    /\ "health_score" \in DOMAIN report
    /\ report.project = 1
    /\ projects[1].spi = Some(86)
    /\ Total(tasks[1]) > 0
    /\ metrics # NoMetrics

-----------------------------------------------------------------------------
(* Claims on the other Project properties, checked under SpecMetrics on    *)
(* the instance the properties were last read off.                         *)

ReadProject == projects[metrics.project]

\* C15: projected_completion_date returns the planned end date unchanged
\* when SPI >= 1 or SPI is 0 or absent; otherwise (0 < SPI < 1, both dates
\* present) it returns start_date + total_days / SPI in whole days, with
\* total_days = planned_end_date - start_date
C15_ProjectedCompletionDate ==
    MetricsRead =>
        LET p == ReadProject
            r == metrics.result["projected_completion_date"]
        IN  /\ (p.spi = None \/ Val(p.spi) = 0 \/ Val(p.spi) >= 100) =>
                  r = Ok(p.planned_end_date)
            /\ (/\ p.spi # None /\ 0 < Val(p.spi) /\ Val(p.spi) < 100
                /\ p.start_date # None /\ p.planned_end_date # None) =>
                  LET total_days == Val(p.planned_end_date) - Val(p.start_date)
                      d == Val(r.value)
                  IN  /\ ~r.raised
                      /\ r.value # None
                      /\ (d - Val(p.start_date)) * Val(p.spi) <= total_days * 100
                      /\ total_days * 100 < (d + 1 - Val(p.start_date)) * Val(p.spi)

\* the property has been read off a project without an SPI
C15_Witness ==
    /\ MetricsRead
    /\ ReadProject.spi = None
    /\ ReadProject.planned_end_date = Some(3)
    /\ metrics.result["projected_completion_date"].raised

\* C16: projected_final_cost returns budget / CPI for a non-zero CPI (so
\* budget = 500000 with CPI = 0.80 gives 625000) and returns the budget
\* unchanged when CPI is 0 or absent
C16_ProjectedFinalCost ==
    MetricsRead =>
        LET p == ReadProject
            r == metrics.projected_final_cost
        IN  /\ (p.cpi = None \/ Val(p.cpi) = 0) => r = Ok(p.budget)
            /\ (p.cpi # None /\ Val(p.cpi) # 0 /\ ~Falsy(p.budget)) =>
                  /\ ~r.raised
                  /\ r.value = [num |-> Val(p.budget), den |-> Val(p.cpi)]
            /\ (p.cpi # None /\ Val(p.cpi) # 0 /\ p.budget = Some(0)) =>
                  r = Ok(p.budget)
            /\ (p.budget = Some(50000000) /\ p.cpi = Some(80)) =>
                  r.value.num = 625000 * r.value.den

\* the property has been read off a project with a budget and no CPI
C16_Witness ==
    /\ MetricsRead
    /\ ReadProject.cpi = None
    /\ ReadProject.budget = Some(50000000)
    /\ metrics.projected_final_cost.raised

\* C17: schedule_variance returns EV - PV with EV = budget *
\* completion_percentage / 100 and PV = budget * min(100, elapsed_days /
\* total_days * 100) / 100, for every today including dates before
\* start_date; it returns 0 when the budget is absent or zero, when either
\* date is absent, or when total_days <= 0.  With the budget B in
\* hundredths, EV - PV is the fraction
\* B * (completion * total_days - 100 * min(total_days, elapsed_days))
\* over 10000 * total_days.
C17_ScheduleVariance ==
    MetricsRead =>
        LET p == ReadProject
            r == metrics.result["schedule_variance"]
        IN  /\ ~r.raised
            /\ IF \/ Falsy(p.budget)
                  \/ p.start_date = None
                  \/ p.planned_end_date = None
               THEN r.value.num = 0
               ELSE LET total_days == Val(p.planned_end_date) - Val(p.start_date)
                        elapsed_days == today - Val(p.start_date)
                        planned_over_total ==   \* min(100, e / t * 100) * t
                            IF elapsed_days >= total_days
                            THEN 100 * total_days
                            ELSE 100 * elapsed_days
                    IN  IF total_days <= 0
                        THEN r.value.num = 0
                        ELSE /\ r.value.den = 10000 * total_days
                             /\ r.value.num =
                                  Val(p.budget) * p.completion_percentage * total_days
                                    - Val(p.budget) * planned_over_total

\* the property has been read on a day before the start date
C17_Witness ==
    /\ MetricsRead
    /\ ~Falsy(ReadProject.budget)
    /\ ReadProject.start_date = Some(2)
    /\ ReadProject.planned_end_date = Some(3)
    /\ today = 1
    /\ ReadProject.completion_percentage = 50
    /\ metrics.result["schedule_variance"].value.num > 0

\* C18: days_remaining returns 0 whenever actual_end_date is set, whatever
\* planned_end_date and today are; otherwise it returns planned_end_date -
\* today in whole days, negative once the planned end date has passed
C18_DaysRemaining ==
    MetricsRead =>
        LET p == ReadProject
            r == metrics.result["days_remaining"]
        IN  /\ p.actual_end_date # None => r = Ok(0)
            /\ (p.actual_end_date = None /\ p.planned_end_date # None) =>
                  r = Ok(Val(p.planned_end_date) - today)

\* read off a finished project whose planned end date lies ahead
C18_Witness ==
    /\ MetricsRead
    /\ ReadProject.actual_end_date = Some(2)
    /\ ReadProject.planned_end_date = Some(3)
    /\ today = 1
    /\ metrics.result["days_remaining"] = Ok(0)

\* C19: is_overbudget is true exactly when spent is strictly greater than
\* budget (equal amounts give false) and is false when budget or spent is
\* absent; when both are present, is_overbudget holds iff budget_variance =
\* budget - spent is negative
C19_Overbudget ==
    MetricsRead =>
        LET p == ReadProject
            over == metrics.result["is_overbudget"]
            variance == metrics.result["budget_variance"]
        IN  /\ ~over.raised
            /\ (p.budget = None \/ p.spent = None) => over.value = FALSE
            /\ (p.budget # None /\ p.spent # None) =>
                  /\ over.value = (Val(p.spent) > Val(p.budget))
                  /\ ~variance.raised
                  /\ variance.value.den > 0
                  /\ variance.value.num * 100 =
                       (Val(p.budget) - Val(p.spent)) * variance.value.den
                  /\ over.value = (variance.value.num < 0)
            /\ (p.budget = Some(10000) /\ p.spent = Some(10000)) => over.value = FALSE
            /\ (p.budget = Some(10000) /\ p.spent = Some(10100)) => over.value = TRUE

\* read off a project that has spent exactly its budget of 100
C19_Witness ==
    /\ MetricsRead
    /\ ReadProject.budget = Some(10000)
    /\ ReadProject.spent = Some(10000)
    /\ metrics.result["is_overbudget"] = Ok(FALSE)
    /\ metrics.result["budget_variance"].value.num = 0

RiskScoreComputed == "risk_score" \in DOMAIN metrics

\* C20: for every risk with probability in 1..100 and impact in 1..10,
\* risk_score = probability * impact / 100 lies in [0.01, 10], with
\* risk_score(100, 10) = 10 and risk_score(1, 1) = 0.01
C20_RiskScoreRange ==
    RiskScoreComputed =>
        LET r == metrics.risk
            s == metrics.risk_score
        IN  /\ r.probability \in MinProbability..MaxProbability
            /\ r.impact \in MinImpact..MaxImpact
            /\ s.den > 0
            /\ s.num * 100 = r.probability * r.impact * s.den
            /\ s.num * 100 >= s.den
            /\ s.num <= 10 * s.den
            /\ (r.probability = 100 /\ r.impact = 10) => s.num = 10 * s.den
            /\ (r.probability = 1 /\ r.impact = 1) => s.num * 100 = s.den

\* the score of the most probable, highest-impact risk has been computed
C20_Witness ==
    /\ RiskScoreComputed
    /\ metrics.risk = [probability |-> MaxProbability, impact |-> MaxImpact]
    /\ metrics.risk_score.num = 10 * metrics.risk_score.den

TaskPropertiesRead == "is_overdue" \in DOMAIN metrics

\* C21: Task.is_overdue is true exactly when the due date is strictly before
\* today and the status is neither completed nor cancelled; for such
\* non-terminal tasks is_overdue holds iff days_until_due is negative, and
\* days_until_due is 0 for completed or cancelled tasks
C21_TaskOverdue ==
    TaskPropertiesRead =>
        LET k == metrics.task
            terminal == k.status \in {"completed", "cancelled"}
        IN  /\ metrics.is_overdue = (k.due_date < today /\ ~terminal)
            /\ ~terminal => /\ metrics.days_until_due = k.due_date - today
                            /\ metrics.is_overdue = (metrics.days_until_due < 0)
            /\ terminal => metrics.days_until_due = 0

\* a blocked task one day past its due date has been read as overdue
C21_Witness ==
    /\ TaskPropertiesRead
    /\ metrics.task.status = "blocked"
    /\ metrics.task.due_date < today
    /\ metrics.is_overdue
    /\ metrics.days_until_due = -1

\* C22: after any sequence of project creations and updates through the
\* REST API, the project form views and the CSV import, every stored project
\* satisfies 0 <= completion_percentage <= 100
C22_CompletionInRange ==
    \A p \in DOMAIN projects :
        /\ projects[p].completion_percentage >= 0
        /\ projects[p].completion_percentage <= 100

\* a project created through the form at the upper limit, after a CSV import
\* and with another project edited to 50
C22_Witness ==
    /\ \E p \in DOMAIN projects : p > 2 /\ projects[p].completion_percentage = 100
    /\ \E p \in DOMAIN projects : projects[p].completion_percentage = 50
    /\ \E p \in DOMAIN projects : projects[p].budget = Some(25000)
    /\ activity[[action |-> "create", model_name |-> "Project"]] = 1

\* C23: after any sequence of project creations and updates through the
\* REST API, the project form views and import_projects_csv, every stored
\* project has budget >= 0 and spent >= 0
C23_AmountsNonNegative ==
    \A p \in DOMAIN projects :
        /\ projects[p].budget # None => Val(projects[p].budget) >= 0
        /\ projects[p].spent # None => Val(projects[p].spent) >= 0

\* the project form has saved a project with a negative budget and a
\* negative amount spent
C23_Witness ==
    /\ http.view = "project_edit_view"
    /\ http.outcome = "saved"
    /\ \E p \in DOMAIN projects :
         /\ Val(projects[p].budget) < 0
         /\ Val(projects[p].spent) < 0

\* the child rows of a project, table by table
Children(p) ==
    <<risks[p], tasks[p], resources[p], milestones[p], issues[p], snapshots[p]>>

ChildrenAfter(p) ==
    <<risks'[p], tasks'[p], resources'[p], milestones'[p], issues'[p], snapshots'[p]>>

\* C24: after any sequence of creations and deletions every Risk, Task,
\* Resource, Milestone, Issue and ProjectSnapshot refers to an existing
\* Project: deleting a project removes all of its child records in the same
\* operation and leaves the children of other projects unchanged
C24_CascadeDelete ==
    /\ [](<<DOMAIN risks, DOMAIN tasks, DOMAIN resources, DOMAIN milestones,
             DOMAIN issues, DOMAIN snapshots>> = [i \in 1..6 |-> DOMAIN projects])
    /\ [][\A p \in DOMAIN projects :
              p \notin DOMAIN projects' =>
                  /\ p \notin DOMAIN risks' \cup DOMAIN tasks' \cup DOMAIN resources'
                  /\ p \notin DOMAIN milestones' \cup DOMAIN issues' \cup DOMAIN snapshots'
                  /\ \A q \in DOMAIN projects \ {p} :
                        /\ q \in DOMAIN projects'
                        /\ projects'[q] = projects[q]
                        /\ ChildrenAfter(q) = Children(q)]_vars

\* project 1 has been deleted with its risks and its snapshot, and project 2
\* still has its tasks, its resources and a snapshot
C24_Witness ==
    /\ http.view = "project_delete_view"
    /\ http.outcome = "deleted"
    /\ DOMAIN projects = {2}
    /\ DOMAIN risks = {2}
    /\ tasks[2][[status |-> "completed", due_date |-> 1]] = 2
    /\ resources[2] = 2
    /\ Len(snapshots[2][1]) = 1
    /\ activity[[action |-> "delete", model_name |-> "Project"]] = 1

\* C25: after PMOAIEngine construction, for every configuration of the API
\* key and every outcome of client initialisation, demo_mode = false implies
\* client is not null; hence _call_claude_api never takes its 'AI client not
\* properly initialized' branch: it returns the demo payload in demo mode
\* and the outcome of the API call otherwise
C25_ClientUnlessDemo ==
    engine # NoEngine =>
        /\ ~engine.demo_mode => engine.client # None
        /\ \A api \in ApiOutcomes :
              call_claude_api(engine, api) =
                  IF engine.demo_mode THEN get_demo_response ELSE ApiResponse(api)

\* a well-formed key, a client whose construction failed, and an operation
\* served from the demo payload
C25_Witness ==
    /\ engine # NoEngine
    /\ ~check_demo_mode(settings).demo_mode
    /\ anthropic.constructions = 1
    /\ engine.demo_mode
    /\ engine.client = None
    /\ result # NoResult
    /\ result.returned = Ok(get_demo_response)

Listed == "rows" \in DOMAIN report /\ report.action = "at_risk_projects"

\* C26: for every project, the risk penalty subtracted inside health_score
\* equals min(10 * high_risks, 30), where high_risks is the high-risk count
\* reported for that same project by the serializers (and stored by
\* create_snapshots): the score of a listed row is the score with the row's
\* own high_risks penalised
C26_PenaltyUsesReportedHighRisks ==
    Listed =>
        \A p \in DOMAIN report.rows :
            LET row == report.rows[p]
            IN  /\ ~row.health_score.raised
                /\ row.health_score.value =
                      PenalisedScore(SpiPenalty(Val(projects[p].spi)),
                                     CpiPenalty(Val(projects[p].cpi)),
                                     row.high_risks,
                                     OverdueTaskCount(tasks[p], today))

\* a project with one high and one critical risk has been listed with
\* high_risks = 2
C26_Witness ==
    /\ Listed
    /\ 1 \in DOMAIN report.rows
    /\ risks[1]["high"] = 1
    /\ risks[1]["critical"] = 1
    /\ report.rows[1].high_risks = 2
    /\ report.rows[1].health_score = Ok(75)

OverdueListed == "rows" \in DOMAIN report /\ report.action = "overdue"

\* the stored tasks of a project whose serialized is_overdue field is true
SerializedOverdue(p) == {k \in DOMAIN tasks[p] : tasks[p][k] > 0 /\ is_overdue(k, today)}

\* C27: for every set of stored tasks and every today, the set of tasks
\* returned by the TaskViewSet.overdue action equals the set of tasks whose
\* serialized is_overdue field is true, and the per-project count of such
\* tasks equals the overdue count used by health_score and by health_report
C27_OverdueActionMatchesProperty ==
    OverdueListed =>
        \A p \in DOMAIN tasks :
            /\ DOMAIN report.rows[p] = SerializedOverdue(p)
            /\ \A k \in DOMAIN report.rows[p] : report.rows[p][k].count = tasks[p][k]
            /\ SumOver(tasks[p], SerializedOverdue(p)) = OverdueTaskCount(tasks[p], today)

\* the overdue action has answered while a blocked task is past its due
\* date: the task is not among the rows
C27_Witness ==
    /\ OverdueListed
    /\ today = 2
    /\ tasks[1][[status |-> "blocked", due_date |-> 1]] = 1
    /\ tasks[1][[status |-> "in_progress", due_date |-> 1]] = 1
    /\ DOMAIN report.rows[1] = {[status |-> "in_progress", due_date |-> 1]}

\* the rows of projects and of their child tables
Records == <<projects, risks, tasks, resources, milestones, issues, snapshots>>

\* the user of the request just answered is logged in and has the property
Allowed(has(_)) ==
    /\ http'.user # 0
    /\ users[http'.user].profile # None
    /\ has(users[http'.user])

\* C28: a project is deleted only by a POST request to project_delete_view
\* from a logged-in user whose profile satisfies is_pmo_director; a GET
\* request, or any request from a user without that role, leaves the project
\* and all of its child records unchanged; project_create_view and
\* project_edit_view change the store only for users with can_edit_projects
C28_OnlyPermittedUsersWrite ==
    [][/\ DOMAIN projects' # DOMAIN projects /\ DOMAIN projects' \subseteq DOMAIN projects =>
             /\ http'.view = "project_delete_view"
             /\ http'.method = "POST"
             /\ Allowed(is_pmo_director)
       /\ (http'.view = "project_delete_view" /\
             (http'.method = "GET" \/ ~Allowed(is_pmo_director))) =>
             UNCHANGED Records
       /\ (http'.view \in {"project_create_view", "project_edit_view"} /\
             Records' # Records) =>
             /\ http'.method = "POST"
             /\ Allowed(can_edit_projects)]_vars

\* a project was deleted, and then the POST of a team member to delete the
\* other one was turned away
C28_Witness ==
    /\ DOMAIN projects = {2}
    /\ activity[[action |-> "delete", model_name |-> "Project"]] = 1
    /\ http.view = "project_delete_view"
    /\ http.method = "POST"
    /\ http.user # 0
    /\ users[http.user].username = "tess"
    /\ http.outcome = "denied"

\* C29: import_projects_csv is all-or-nothing: a request that ends with the
\* 'Error importing CSV' message has modified no project record, and in every
\* case the request neither creates nor deletes a project
C29_ImportAllOrNothing ==
    [][\A u \in Requesters, req \in ImportRequests :
         import_projects_csv(u, req.method, req.file) =>
             /\ DOMAIN projects' = DOMAIN projects
             /\ http'.outcome = "Error importing CSV" => projects' = projects]_vars

\* the import ended with the error message after one row had been counted,
\* and project 1 holds the cells of that row
C29_Witness ==
    /\ http.view = "import_projects_csv"
    /\ http.outcome = "Error importing CSV"
    /\ http.imported_count = 1
    /\ projects[1].budget = Some(DecimalCells["250.00"])
    /\ projects[1].start_date = Some(DateCells["0001-01-02"])
    /\ projects[1].status = "at_risk"
    /\ projects[2].budget # Some(DecimalCells["250.00"])

\* the messages of the three validation branches of register_view
Rejections ==
    {"Passwords do not match", "Username already exists", "Email already registered"}

\* C30: after any interleaving of concurrent register_view requests no two
\* stored users share the same username or the same e-mail address, and a
\* request that is rejected (password mismatch, existing username, existing
\* e-mail) creates no user and no profile
C30_UniqueUsersAfterRegistration ==
    /\ [](\A i, j \in 1..Len(users) :
            i # j => /\ users[i].username # users[j].username
                     /\ users[i].email # users[j].email)
    /\ [][\A v \in Visitors :
            (pending'[v] # pending[v] /\
               (pending'[v].message \in Rejections \/
                  pending'[v].pc \in {"username", "email", "create"})) =>
                users' = users]_vars

\* two visitors were both told that their registration succeeded, and the
\* two accounts they made have the same e-mail address
C30_Witness ==
    /\ \A v \in Visitors :
         /\ pending[v].pc = "idle"
         /\ pending[v].message = "Registration successful! Please login."
    /\ Len(users) = 3
    /\ users[2].email = users[3].email
    /\ users[2].username # users[3].username

=============================================================================
